---- MODULE Spec2Model ----
(***************************************************************************)
(* Model of the momentum-ignition signal engine (src/src/strategy.py).     *)
(*                                                                         *)
(* One MomentumIgnitionStrategy object is driven the way optimizer.py and  *)
(* main.py drive it: process_bar(data.iloc[:i+1]) for i = 0, 1, 2, ...     *)
(* The values process_bar reads from the indicator series of a history     *)
(* (positions -1 and -2 of each pandas Series) are the inputs of a call.   *)
(*                                                                         *)
(* Numbers.  Prices, ATR and oscillator values are floats in the source.   *)
(* Bars and indicator readings are integers here; atr_stop_multiple and    *)
(* atr_threshold_factor are rationals [num, den].  Prices kept by the      *)
(* engine (entry_price, trailing_stop_price, event prices) are held in     *)
(* units of 1/atr_stop_multiple.den, so close - atr * multiple is exact.   *)
(* A float NaN is the value NaN; comparisons with it are false.            *)
(***************************************************************************)
EXTENDS Integers, Sequences, FiniteSets, TLC

\* The engine: its parameters, the number of bars fed to it so far, its four
\* fields, and what its last process_bar call saw (locals).
\* The confirmation checks called on their own: the length of the data frame
\* (df_len), the readings of its stochastic and MACD series, and the
\* dictionaries the two checks returned.
VARIABLES params, len, current_position, entry_price, trailing_stop_price,
          signals, locals,
          df_len, stoch_series, macd_series, stoch_result, macd_result,
          data, results, calls, search, evaluated, strategy, returned,
          snapshot,
          df, columns, periods, series,
          backtest,
          exception, main, fetch

vars == <<params, len, current_position, entry_price, trailing_stop_price,
          signals, locals, df_len, stoch_series, macd_series, stoch_result,
          macd_result, data, results, calls, search, evaluated, strategy,
          returned, snapshot, df, columns, periods, series, backtest,
          exception, main, fetch>>

engineVars == <<len, current_position, entry_price, trailing_stop_price,
                signals, locals>>

confVars == <<df_len, stoch_series, macd_series, stoch_result, macd_result>>

\* The optimizer: its bar data and result list (self.data, self.results), the
\* number of run_grid_search calls made, the arguments of the latest one and
\* the result list it started from (search), the evaluations it made in order
\* (evaluated), the strategy object of its latest evaluation, and what the
\* latest call of a public method returned.
optVars == <<data, results, calls, search, evaluated, strategy, returned>>

\* The data frame a caller got from get_signals and the latest thing done
\* with it.
snapVars == <<snapshot>>

\* The indicator library called on its own: the rows and the column names of
\* the data frame handed to an indicator function, the periods handed with
\* it, and the series returned or the exception raised.
indVars == <<df, columns, periods, series>>

\* A Backtester used on its own: the event list and commission handed to
\* it, and its ledger and equity series once run_backtest has run.
backVars == <<backtest>>

\* The exception that left the engine's constructor or its latest process_bar
\* call when the engine is called on its own (exception), the command-line run
\* of main.py (main), and one fetch_fmp_historical_data call (fetch).
runVars == <<exception, main, fetch>>

\* Number of bars of the data set fed to one engine.
MaxBars == 22

\* ------------------------------------------------------------------------
\* Values

\* numpy's nan, the value of an indicator position without enough history.
NaN == -1000000

\* Python's None for current_position.
NoPosition == "None"

\* Python's None for entry_price and trailing_stop_price; a price p is <<p>>.
NoPrice == <<>>

Some(p) == <<p>>

\* IEEE comparisons of floats: false as soon as one side is NaN.
FLt(a, b) == a # NaN /\ b # NaN /\ a < b

FGt(a, b) == a # NaN /\ b # NaN /\ a > b

FLe(a, b) == a # NaN /\ b # NaN /\ a <= b

FGe(a, b) == a # NaN /\ b # NaN /\ a >= b

Max2(a, b) == IF a >= b THEN a ELSE b

Min2(a, b) == IF a <= b THEN a ELSE b

\* ------------------------------------------------------------------------
\* Parameter sets (the params dictionary of the constructor)

ParamsA ==
  [atr_period |-> 14, atr_threshold_factor |-> [num |-> 7, den |-> 10],
   roc_period |-> 5, roc_threshold |-> 5, trend_ma_period |-> 17,
   atr_stop_multiple |-> [num |-> 5, den |-> 2],
   fast_stoch_k_period_1 |-> 9, fast_stoch_d_period_1 |-> 3, fast_stoch_smoothing_1 |-> 3,
   fast_stoch_k_period_2 |-> 14, fast_stoch_d_period_2 |-> 3, fast_stoch_smoothing_2 |-> 3,
   slow_stoch_k_period_1 |-> 15, slow_stoch_d_period_1 |-> 4, slow_stoch_smoothing_1 |-> 4,
   slow_stoch_k_period_2 |-> 16, slow_stoch_d_period_2 |-> 10, slow_stoch_smoothing_2 |-> 10,
   stoch_oversold |-> 20, stoch_overbought |-> 80,
   stoch_oversold_60_10_10_alert |-> 15, stoch_overbought_60_10_10_alert |-> 85,
   macd_fast_period |-> 12, macd_slow_period |-> 16, macd_signal_period |-> 9]

ParamsB ==
  [atr_period |-> 10, atr_threshold_factor |-> [num |-> 1, den |-> 2],
   roc_period |-> 3, roc_threshold |-> 10, trend_ma_period |-> 19,
   atr_stop_multiple |-> [num |-> 2, den |-> 1],
   fast_stoch_k_period_1 |-> 9, fast_stoch_d_period_1 |-> 3, fast_stoch_smoothing_1 |-> 3,
   fast_stoch_k_period_2 |-> 14, fast_stoch_d_period_2 |-> 3, fast_stoch_smoothing_2 |-> 3,
   slow_stoch_k_period_1 |-> 15, slow_stoch_d_period_1 |-> 4, slow_stoch_smoothing_1 |-> 4,
   slow_stoch_k_period_2 |-> 16, slow_stoch_d_period_2 |-> 10, slow_stoch_smoothing_2 |-> 10,
   stoch_oversold |-> 20, stoch_overbought |-> 80,
   stoch_oversold_60_10_10_alert |-> 20, stoch_overbought_60_10_10_alert |-> 80,
   macd_fast_period |-> 12, macd_slow_period |-> 16, macd_signal_period |-> 9]

ParamSets == {ParamsA, ParamsB}

\* ------------------------------------------------------------------------
\* Readings of the indicator series of one history

\* The eight series _check_stochastic_confirmations builds.
StochSeries == {"fast_k_9_3_3", "fast_d_9_3_3", "fast_k_14_3_3", "fast_d_14_3_3",
                "slow_k_40_4_4", "slow_d_40_4_4", "slow_k_60_10_10", "slow_d_60_10_10"}

\* A reading s gives, for each series x, s[x].last = x.iloc[-1] and
\* s[x].prev = x.iloc[-2].
StochNeutral == [x \in StochSeries |-> [last |-> 50, prev |-> 50]]

StochLong ==
  [x \in StochSeries |->
     IF x = "slow_k_60_10_10" THEN [last |-> 12, prev |-> 8]
     ELSE IF x = "slow_d_60_10_10" THEN [last |-> 10, prev |-> 12]
     ELSE [last |-> 10, prev |-> 10]]

StochShort ==
  [x \in StochSeries |->
     IF x = "slow_k_60_10_10" THEN [last |-> 88, prev |-> 92]
     ELSE IF x = "slow_d_60_10_10" THEN [last |-> 90, prev |-> 88]
     ELSE [last |-> 90, prev |-> 90]]

MacdLong == [macd_line |-> -1, signal_line |-> -2, histogram |-> 1, histogram_prev |-> -1]

MacdShort == [macd_line |-> 1, signal_line |-> 2, histogram |-> -1, histogram_prev |-> 1]

MacdFlat == [macd_line |-> 0, signal_line |-> 0, histogram |-> 0, histogram_prev |-> 0]

\* ------------------------------------------------------------------------
\* Strategy helper functions

\* is_consolidating's default window_for_avg_atr; process_bar never passes one.
window_for_avg_atr == 20

\* is_consolidating: n is len(atr_series), avg_atr the mean of its last 20 values.
is_consolidating(n, current_atr, avg_atr, atr_threshold_factor) ==
  IF n = 0 \/ n < window_for_avg_atr THEN FALSE
  ELSE current_atr * atr_threshold_factor.den < avg_atr * atr_threshold_factor.num

get_momentum_ignition_signal(n, current_roc, roc_threshold) ==
  IF n = 0 THEN "none"
  ELSE IF FGt(current_roc, roc_threshold) THEN "long"
  ELSE IF FLt(current_roc, 0 - roc_threshold) THEN "short"
  ELSE "none"

get_trend(n, current_close, current_sma) ==
  IF n = 0 THEN "sideways"
  ELSE IF FGt(current_close, current_sma) THEN "uptrend"
  ELSE IF FLt(current_close, current_sma) THEN "downtrend"
  ELSE "sideways"

\* `x is np.nan`: an identity test against the np.nan object.  A position of
\* a float64 Series is read as a fresh numpy.float64, which is never that
\* object, whatever its value.
IsNpNanObject(x) == FALSE

\* Faulty variant of check_stochastic_confirmations: the alert levels of the
\* slowest oscillator are not asked for.
check_stochastic_confirmations_no_alert(p, n, s) ==
  IF n < 2 THEN [long |-> FALSE, short |-> FALSE]
  ELSE
    [long  |-> /\ \A x \in StochSeries : FLt(s[x].last, p.stoch_oversold)
               /\ FLt(s.slow_k_60_10_10.prev, s.slow_d_60_10_10.prev)
               /\ FGt(s.slow_k_60_10_10.last, s.slow_d_60_10_10.last),
     short |-> /\ \A x \in StochSeries : FGt(s[x].last, p.stoch_overbought)
               /\ FGt(s.slow_k_60_10_10.prev, s.slow_d_60_10_10.prev)
               /\ FLt(s.slow_k_60_10_10.last, s.slow_d_60_10_10.last)]

\* _check_stochastic_confirmations: n is the length of every series.
check_stochastic_confirmations(p, n, s) ==
  IF \E x \in StochSeries :
        \/ n = 0
        \/ IsNpNanObject(s[x].last)
        \/ n < 2
        \/ IsNpNanObject(s[x].prev)
  THEN [long |-> FALSE, short |-> FALSE]
  ELSE
    LET all_stochs_oversold ==
          /\ FLt(s.fast_k_9_3_3.last, p.stoch_oversold)
          /\ FLt(s.fast_d_9_3_3.last, p.stoch_oversold)
          /\ FLt(s.fast_k_14_3_3.last, p.stoch_oversold)
          /\ FLt(s.fast_d_14_3_3.last, p.stoch_oversold)
          /\ FLt(s.slow_k_40_4_4.last, p.stoch_oversold)
          /\ FLt(s.slow_d_40_4_4.last, p.stoch_oversold)
          /\ FLt(s.slow_k_60_10_10.last, p.stoch_oversold)
          /\ FLt(s.slow_d_60_10_10.last, p.stoch_oversold)
        stoch_60_10_10_k == s.slow_k_60_10_10.last
        stoch_60_10_10_d == s.slow_d_60_10_10.last
        stoch_60_10_10_k_prev == s.slow_k_60_10_10.prev
        stoch_60_10_10_d_prev == s.slow_d_60_10_10.prev
        stoch_60_10_10_cross_up ==
          /\ FLt(stoch_60_10_10_k_prev, stoch_60_10_10_d_prev)
          /\ FGt(stoch_60_10_10_k, stoch_60_10_10_d)
        stoch_60_10_10_at_alert_level_long ==
          FLe(stoch_60_10_10_k, p.stoch_oversold_60_10_10_alert)
        all_stochs_overbought ==
          /\ FGt(s.fast_k_9_3_3.last, p.stoch_overbought)
          /\ FGt(s.fast_d_9_3_3.last, p.stoch_overbought)
          /\ FGt(s.fast_k_14_3_3.last, p.stoch_overbought)
          /\ FGt(s.fast_d_14_3_3.last, p.stoch_overbought)
          /\ FGt(s.slow_k_40_4_4.last, p.stoch_overbought)
          /\ FGt(s.slow_d_40_4_4.last, p.stoch_overbought)
          /\ FGt(s.slow_k_60_10_10.last, p.stoch_overbought)
          /\ FGt(s.slow_d_60_10_10.last, p.stoch_overbought)
        stoch_60_10_10_cross_down ==
          /\ FGt(stoch_60_10_10_k_prev, stoch_60_10_10_d_prev)
          /\ FLt(stoch_60_10_10_k, stoch_60_10_10_d)
        stoch_60_10_10_at_alert_level_short ==
          FGe(stoch_60_10_10_k, p.stoch_overbought_60_10_10_alert)
    IN [long  |-> all_stochs_oversold /\ stoch_60_10_10_cross_up
                    /\ stoch_60_10_10_at_alert_level_long,
        short |-> all_stochs_overbought /\ stoch_60_10_10_cross_down
                    /\ stoch_60_10_10_at_alert_level_short]

\* Faulty variant of check_macd_confirmation: the histogram of the previous
\* bar is not asked for.
check_macd_confirmation_no_flip(n, m) ==
  IF n < 2 THEN [long |-> FALSE, short |-> FALSE]
  ELSE [long  |-> FLt(m.macd_line, 0) /\ FLt(m.signal_line, 0) /\ FGt(m.histogram, 0),
        short |-> FGt(m.macd_line, 0) /\ FGt(m.signal_line, 0) /\ FLt(m.histogram, 0)]

\* _check_macd_confirmation: n is the length of the three series.
check_macd_confirmation(n, m) ==
  IF \/ n = 0
     \/ IsNpNanObject(m.macd_line) \/ IsNpNanObject(m.signal_line)
     \/ IsNpNanObject(m.histogram)
     \/ n < 2 \/ IsNpNanObject(m.histogram_prev)
  THEN [long |-> FALSE, short |-> FALSE]
  ELSE
    LET macd_under_zero == FLt(m.macd_line, 0) /\ FLt(m.signal_line, 0)
        histogram_flip_pos == FLt(m.histogram_prev, 0) /\ FGt(m.histogram, 0)
        macd_above_zero == FGt(m.macd_line, 0) /\ FGt(m.signal_line, 0)
        histogram_flip_neg == FGt(m.histogram_prev, 0) /\ FLt(m.histogram, 0)
    IN [long  |-> macd_under_zero /\ histogram_flip_pos,
        short |-> macd_above_zero /\ histogram_flip_neg]

\* ------------------------------------------------------------------------
\* process_bar

\* Timestamp of the bar at position i of the data set (its index is unique
\* and increasing; main.py loads 1-minute bars).
Timestamp(i) == 60 * i

\* A price or an ATR multiple in the unit the engine's prices are held in.
Scaled(p, x) == x * p.atr_stop_multiple.den

\* current_atr * atr_stop_multiple, in that unit.
StopDistance(p, current_atr) == current_atr * p.atr_stop_multiple.num

Event(timestamp, type, price, reason) ==
  [timestamp |-> timestamp, type |-> type, price |-> price, reason |-> reason]

\* Python's max over numbers.
max(S) == CHOOSE x \in S : \A y \in S : y <= x

\* Faulty variant of max_lookback: the shortest period instead of the longest.
max_lookback_shortest(p) ==
  (CHOOSE x \in {p.trend_ma_period, p.atr_period, p.roc_period,
                 p.fast_stoch_k_period_1, p.fast_stoch_d_period_1, p.fast_stoch_smoothing_1,
                 p.fast_stoch_k_period_2, p.fast_stoch_d_period_2, p.fast_stoch_smoothing_2,
                 p.slow_stoch_k_period_1, p.slow_stoch_d_period_1, p.slow_stoch_smoothing_1,
                 p.slow_stoch_k_period_2, p.slow_stoch_d_period_2, p.slow_stoch_smoothing_2,
                 p.macd_fast_period, p.macd_slow_period, p.macd_signal_period} :
     \A y \in {p.trend_ma_period, p.atr_period, p.roc_period,
               p.fast_stoch_k_period_1, p.fast_stoch_d_period_1, p.fast_stoch_smoothing_1,
               p.fast_stoch_k_period_2, p.fast_stoch_d_period_2, p.fast_stoch_smoothing_2,
               p.slow_stoch_k_period_1, p.slow_stoch_d_period_1, p.slow_stoch_smoothing_1,
               p.slow_stoch_k_period_2, p.slow_stoch_d_period_2, p.slow_stoch_smoothing_2,
               p.macd_fast_period, p.macd_slow_period, p.macd_signal_period} : x <= y) + 2

max_lookback(p) ==
  max({p.trend_ma_period, p.atr_period, p.roc_period,
          p.fast_stoch_k_period_1, p.fast_stoch_d_period_1, p.fast_stoch_smoothing_1,
          p.fast_stoch_k_period_2, p.fast_stoch_d_period_2, p.fast_stoch_smoothing_2,
          p.slow_stoch_k_period_1, p.slow_stoch_d_period_1, p.slow_stoch_smoothing_1,
          p.slow_stoch_k_period_2, p.slow_stoch_d_period_2, p.slow_stoch_smoothing_2,
          p.macd_fast_period, p.macd_slow_period, p.macd_signal_period}) + 2

\* The engine's fields as one record.
Engine(position, entry, stop, sigs) ==
  [current_position |-> position, entry_price |-> entry,
   trailing_stop_price |-> stop, signals |-> sigs]

\* Faulty variant of core_indicators: the timestamp of the bar before the last.
core_indicators_stale_timestamp(p, n, r) ==
  [current_atr |-> r.current_atr,
   consolidating |-> is_consolidating(n, r.current_atr, r.avg_atr, p.atr_threshold_factor),
   momentum_signal |-> get_momentum_ignition_signal(n, r.current_roc, p.roc_threshold),
   trend |-> get_trend(n, r.bar.close, r.current_sma),
   current_close |-> r.bar.close,
   current_high |-> r.bar.high,
   current_low |-> r.bar.low,
   current_timestamp |-> Timestamp(n - 2),
   stoch_confirmations |-> check_stochastic_confirmations(p, n, r.stoch),
   macd_confirmations |-> check_macd_confirmation(n, r.macd)]

\* process_bar's locals once the history is long enough: n = len(current_data_slice),
\* r the readings of that history's bar and indicator series.
core_indicators(p, n, r) ==
  [current_atr |-> r.current_atr,
   consolidating |-> is_consolidating(n, r.current_atr, r.avg_atr, p.atr_threshold_factor),
   momentum_signal |-> get_momentum_ignition_signal(n, r.current_roc, p.roc_threshold),
   trend |-> get_trend(n, r.bar.close, r.current_sma),
   current_close |-> r.bar.close,
   current_high |-> r.bar.high,
   current_low |-> r.bar.low,
   current_timestamp |-> Timestamp(n - 1),
   stoch_confirmations |-> check_stochastic_confirmations(p, n, r.stoch),
   macd_confirmations |-> check_macd_confirmation(n, r.macd)]

\* Faulty variant of long_stop_update: the stop follows the close down as well.
long_stop_update_no_ratchet(p, stop, c) ==
  Scaled(p, c.current_close) - StopDistance(p, c.current_atr)

\* Trailing stop after the update of a long position's stop.
long_stop_update(p, stop, c) ==
  Max2(stop, Scaled(p, c.current_close) - StopDistance(p, c.current_atr))

\* Trailing stop after the update of a short position's stop.
short_stop_update(p, stop, c) ==
  Min2(stop, Scaled(p, c.current_close) + StopDistance(p, c.current_atr))

\* Faulty variant of exit_logic: a stopped-out long is filled at the bar's low.
exit_logic_fill_at_low(p, e, c) ==
  IF e.current_position = "long" THEN
    LET stop == long_stop_update(p, e.trailing_stop_price[1], c) IN
    IF Scaled(p, c.current_low) <= stop
    THEN Engine(NoPosition, NoPrice, NoPrice,
                Append(e.signals,
                       Event(c.current_timestamp, "exit_long", Scaled(p, c.current_low),
                             "trailing_stop")))
    ELSE [e EXCEPT !.trailing_stop_price = Some(stop)]
  ELSE IF e.current_position = "short" THEN
    LET stop == short_stop_update(p, e.trailing_stop_price[1], c) IN
    IF Scaled(p, c.current_high) >= stop
    THEN Engine(NoPosition, NoPrice, NoPrice,
                Append(e.signals,
                       Event(c.current_timestamp, "exit_short", stop, "trailing_stop")))
    ELSE [e EXCEPT !.trailing_stop_price = Some(stop)]
  ELSE e

\* Faulty variant of exit_logic: the breach is tested against the stop as the
\* previous call left it, and the stop is updated only when it is not breached.
exit_logic_test_before_update(p, e, c) ==
  IF e.current_position = "long" THEN
    IF Scaled(p, c.current_low) <= e.trailing_stop_price[1]
    THEN Engine(NoPosition, NoPrice, NoPrice,
                Append(e.signals,
                       Event(c.current_timestamp, "exit_long", e.trailing_stop_price[1],
                             "trailing_stop")))
    ELSE [e EXCEPT !.trailing_stop_price =
                     Some(long_stop_update(p, e.trailing_stop_price[1], c))]
  ELSE IF e.current_position = "short" THEN
    IF Scaled(p, c.current_high) >= e.trailing_stop_price[1]
    THEN Engine(NoPosition, NoPrice, NoPrice,
                Append(e.signals,
                       Event(c.current_timestamp, "exit_short", e.trailing_stop_price[1],
                             "trailing_stop")))
    ELSE [e EXCEPT !.trailing_stop_price =
                     Some(short_stop_update(p, e.trailing_stop_price[1], c))]
  ELSE e

\* "Exit Logic (Check before Entry)".
\* Faulty variant of exit_logic: the exit is priced at the bar's close.
exit_logic_at_close(p, e, c) ==
  IF e.current_position = "long" THEN
    LET stop == long_stop_update(p, e.trailing_stop_price[1], c) IN
    IF Scaled(p, c.current_low) <= stop
    THEN Engine(NoPosition, NoPrice, NoPrice,
                Append(e.signals,
                       Event(c.current_timestamp, "exit_long", Scaled(p, c.current_close),
                             "trailing_stop")))
    ELSE [e EXCEPT !.trailing_stop_price = Some(stop)]
  ELSE IF e.current_position = "short" THEN
    LET stop == short_stop_update(p, e.trailing_stop_price[1], c) IN
    IF Scaled(p, c.current_high) >= stop
    THEN Engine(NoPosition, NoPrice, NoPrice,
                Append(e.signals,
                       Event(c.current_timestamp, "exit_short", Scaled(p, c.current_close),
                             "trailing_stop")))
    ELSE [e EXCEPT !.trailing_stop_price = Some(stop)]
  ELSE e

exit_logic(p, e, c) ==
  IF e.current_position = "long" THEN
    LET stop == long_stop_update(p, e.trailing_stop_price[1], c) IN
    IF Scaled(p, c.current_low) <= stop
    THEN Engine(NoPosition, NoPrice, NoPrice,
                Append(e.signals,
                       Event(c.current_timestamp, "exit_long", stop, "trailing_stop")))
    ELSE [e EXCEPT !.trailing_stop_price = Some(stop)]
  ELSE IF e.current_position = "short" THEN
    LET stop == short_stop_update(p, e.trailing_stop_price[1], c) IN
    IF Scaled(p, c.current_high) >= stop
    THEN Engine(NoPosition, NoPrice, NoPrice,
                Append(e.signals,
                       Event(c.current_timestamp, "exit_short", stop, "trailing_stop")))
    ELSE [e EXCEPT !.trailing_stop_price = Some(stop)]
  ELSE e

\* Faulty variant of long_entry_condition: the MACD confirmation is not asked for.
long_entry_condition_no_macd(c) ==
  /\ c.consolidating
  /\ c.momentum_signal = "long"
  /\ c.trend = "uptrend"
  /\ c.stoch_confirmations.long

long_entry_condition(c) ==
  /\ c.consolidating
  /\ c.momentum_signal = "long"
  /\ c.trend = "uptrend"
  /\ c.stoch_confirmations.long
  /\ c.macd_confirmations.long

\* Faulty variant of short_entry_condition: the short branch repeats the tests
\* of the long branch.
short_entry_condition_as_long(c) ==
  /\ c.consolidating
  /\ c.momentum_signal = "long"
  /\ c.trend = "uptrend"
  /\ c.stoch_confirmations.long
  /\ c.macd_confirmations.long

short_entry_condition(c) ==
  /\ c.consolidating
  /\ c.momentum_signal = "short"
  /\ c.trend = "downtrend"
  /\ c.stoch_confirmations.short
  /\ c.macd_confirmations.short

EnterLong(p, e, c) ==
  Engine("long", Some(Scaled(p, c.current_close)),
         Some(Scaled(p, c.current_close) - StopDistance(p, c.current_atr)),
         Append(e.signals,
                Event(c.current_timestamp, "entry_long", Scaled(p, c.current_close),
                      "consolidation_breakout_long_confirmed")))

\* Faulty variant of EnterShort: the stop is placed below the close, as for a
\* long.
EnterShort_stop_below(p, e, c) ==
  Engine("short", Some(Scaled(p, c.current_close)),
         Some(Scaled(p, c.current_close) - StopDistance(p, c.current_atr)),
         Append(e.signals,
                Event(c.current_timestamp, "entry_short", Scaled(p, c.current_close),
                      "consolidation_breakout_short_confirmed")))

EnterShort(p, e, c) ==
  Engine("short", Some(Scaled(p, c.current_close)),
         Some(Scaled(p, c.current_close) + StopDistance(p, c.current_atr)),
         Append(e.signals,
                Event(c.current_timestamp, "entry_short", Scaled(p, c.current_close),
                      "consolidation_breakout_short_confirmed")))

\* Faulty variant of entry_logic: it enters whatever the current position.
entry_logic_any_position(p, e, c) ==
  IF long_entry_condition(c) THEN EnterLong(p, e, c)
  ELSE IF short_entry_condition(c) THEN EnterShort(p, e, c)
  ELSE e

\* Faulty variant of entry_logic: no entry in a call that has emitted an exit.
entry_logic_not_after_exit(p, e, c) ==
  IF /\ e.current_position = NoPosition
     /\ ~(/\ e.signals # <<>>
          /\ e.signals[Len(e.signals)].timestamp = c.current_timestamp)
  THEN
    IF long_entry_condition(c) THEN EnterLong(p, e, c)
    ELSE IF short_entry_condition(c) THEN EnterShort(p, e, c)
    ELSE e
  ELSE e

\* "Entry Logic (with new confirmations)".
\* Faulty variant of entry_logic: the position just opened is exit-checked on
\* the bar that opened it.
entry_logic_exit_checked(p, e, c) ==
  IF e.current_position = NoPosition THEN
    IF long_entry_condition(c) THEN exit_logic(p, EnterLong(p, e, c), c)
    ELSE IF short_entry_condition(c) THEN exit_logic(p, EnterShort(p, e, c), c)
    ELSE e
  ELSE e

entry_logic(p, e, c) ==
  IF e.current_position = NoPosition THEN
    IF long_entry_condition(c) THEN EnterLong(p, e, c)
    ELSE IF short_entry_condition(c) THEN EnterShort(p, e, c)
    ELSE e
  ELSE e

\* What the last call saw: whether it passed the lookback guard, the engine's
\* position and stop when it started, its position, entry price and stop when
\* the entry check ran, and its locals c (meaningful when sufficient).
\* atr_at_entry is the current_atr of the call that opened the position now
\* open (0 when flat).
Locals(sufficient, before, at_entry_check, after, c, atr_before) ==
  [sufficient |-> sufficient,
   position_before |-> before.current_position,
   stop_before |-> before.trailing_stop_price,
   position_at_entry_check |-> at_entry_check.current_position,
   entry_price_at_entry_check |-> at_entry_check.entry_price,
   stop_at_entry_check |-> at_entry_check.trailing_stop_price,
   atr_at_entry |->
     IF after.current_position = NoPosition THEN 0
     ELSE IF Len(after.signals) > Len(at_entry_check.signals) THEN c.current_atr
     ELSE atr_before,
   c |-> c]

\* ------------------------------------------------------------------------
\* Inputs of the engine

\* Bars of the data set.
Bars == {[low |-> 100, close |-> 100, high |-> 100],
         [low |-> 94, close |-> 94, high |-> 100],
         [low |-> 94, close |-> 103, high |-> 103]}

ATRs == {1, 2}

SetupLong ==
  [avg_atr |-> 5, current_roc |-> 20, current_sma |-> 93,
   stoch |-> StochLong, macd |-> MacdLong]

SetupShort ==
  [avg_atr |-> 5, current_roc |-> -20, current_sma |-> 104,
   stoch |-> StochShort, macd |-> MacdShort]

\* Indicator readings: every entry condition met, or all but one.
Setups ==
  {SetupLong, SetupShort,
   [SetupLong EXCEPT !.avg_atr = 1], [SetupShort EXCEPT !.avg_atr = 1],
   [SetupLong EXCEPT !.current_roc = 0], [SetupShort EXCEPT !.current_roc = 0],
   [SetupLong EXCEPT !.current_sma = 100], [SetupShort EXCEPT !.current_sma = 100],
   [SetupLong EXCEPT !.stoch = StochNeutral], [SetupShort EXCEPT !.stoch = StochNeutral],
   [SetupLong EXCEPT !.macd = MacdFlat], [SetupShort EXCEPT !.macd = MacdFlat]}

Readings ==
  {[bar |-> b, current_atr |-> a, avg_atr |-> s.avg_atr, current_roc |-> s.current_roc,
    current_sma |-> s.current_sma, stoch |-> s.stoch, macd |-> s.macd] :
     b \in Bars, a \in ATRs, s \in Setups}

\* ------------------------------------------------------------------------
\* Indicator library (src/src/indicators.py)

\* Longest data frame handed to an indicator function.
MaxLen == 3

\* A float of a series: nan, inf, -inf, or the number num / den in lowest
\* terms with den > 0.
QNaN == [nan |-> TRUE]

QInf == [inf |-> 1]

QNegInf == [inf |-> -1]

RECURSIVE GCD(_, _)
GCD(a, b) == IF b = 0 THEN a ELSE GCD(b, a % b)

Abs(a) == IF a < 0 THEN -a ELSE a

Q(n, d) ==
  LET g == GCD(Abs(n), Abs(d))
      s == IF d < 0 THEN -1 ELSE 1
  IN  [num |-> s * (n \div g), den |-> s * (d \div g)]

IsFinite(x) == x \notin {QNaN, QInf, QNegInf}

\* Float arithmetic on finite values and nan (a nan operand gives nan).
QAdd(x, y) ==
  IF QNaN \in {x, y} THEN QNaN ELSE Q(x.num * y.den + y.num * x.den, x.den * y.den)

QSub(x, y) ==
  IF QNaN \in {x, y} THEN QNaN ELSE Q(x.num * y.den - y.num * x.den, x.den * y.den)

\* k * x for a number k > 0.
QScale(k, x) == IF IsFinite(x) THEN Q(k * x.num, x.den) ELSE x

\* x / k for a number k > 0.
QShrink(x, k) == IF IsFinite(x) THEN Q(x.num, k * x.den) ELSE x

\* Float division of finite values and nan: 0 / 0 is nan, x / 0 is an infinity.
QDiv(x, y) ==
  IF QNaN \in {x, y} THEN QNaN
  ELSE IF y.num = 0
       THEN IF x.num = 0 THEN QNaN ELSE IF x.num > 0 THEN QInf ELSE QNegInf
       ELSE Q(x.num * y.den, x.den * y.num)

QAbs(x) == IF IsFinite(x) THEN Q(Abs(x.num), x.den) ELSE x

QLe(x, y) == x.num * y.den <= y.num * x.den

QMax(S) == CHOOSE x \in S : \A y \in S : QLe(y, x)

QMin(S) == CHOOSE x \in S : \A y \in S : QLe(x, y)

RECURSIVE QSum(_, _, _)
QSum(xs, lo, hi) == IF lo > hi THEN Q(0, 1) ELSE QAdd(xs[lo], QSum(xs, lo + 1, hi))

\* A column of the data frame as a series of floats.
Column(frame, name) == [t \in 1..Len(frame) |-> Q(frame[t][name], 1)]

\* Series.shift(): every value one position later, nan at the first position.
shift(xs) == [t \in 1..Len(xs) |-> IF t = 1 THEN QNaN ELSE xs[t - 1]]

\* The values of the window of w positions that ends at position t.
Window(xs, w, t) == {xs[j] : j \in Max2(1, t - w + 1)..t}

\* Series.rolling(window=w), min_periods = w: a position has a value once its
\* window holds w values other than nan.
WindowFull(xs, w, t) == t >= w /\ QNaN \notin Window(xs, w, t)

rolling_min(xs, w) ==
  [t \in 1..Len(xs) |-> IF WindowFull(xs, w, t) THEN QMin(Window(xs, w, t)) ELSE QNaN]

rolling_max(xs, w) ==
  [t \in 1..Len(xs) |-> IF WindowFull(xs, w, t) THEN QMax(Window(xs, w, t)) ELSE QNaN]

rolling_mean(xs, w) ==
  [t \in 1..Len(xs) |->
     IF WindowFull(xs, w, t) THEN QShrink(QSum(xs, t - w + 1, t), w) ELSE QNaN]

\* Series.ewm(span=span, adjust=False).mean() of a series without nan: the
\* first value, then y[t] = (1 - a) * y[t - 1] + a * x[t] with a = 2 / (span + 1).
RECURSIVE ewm_at(_, _, _)
ewm_at(xs, span, t) ==
  IF t = 1 THEN xs[1]
  ELSE QShrink(QAdd(QScale(2, xs[t]),
                    IF span = 1 THEN Q(0, 1) ELSE QScale(span - 1, ewm_at(xs, span, t - 1))),
               span + 1)

ewm_mean(xs, span) == [t \in 1..Len(xs) |-> ewm_at(xs, span, t)]

\* Series.replace([np.inf, -np.inf], np.nan).
replace_inf(xs) == [t \in 1..Len(xs) |-> IF xs[t] \in {QInf, QNegInf} THEN QNaN ELSE xs[t]]

\* Faulty variant of series_fillna: the series is left as it is.
series_fillna_kept(xs, v) == xs

\* Series.fillna(v): v at every position that holds nan.
series_fillna(xs, v) == [t \in 1..Len(xs) |-> IF xs[t] = QNaN THEN v ELSE xs[t]]

\* calculate_atr: the true range is the greatest of the three ranges that are
\* not nan (DataFrame.max skips nan), so high - low at the first position.
calculate_atr(frame, period) ==
  LET high == Column(frame, "High")
      low == Column(frame, "Low")
      prev == shift(Column(frame, "Close"))
      high_low == [t \in 1..Len(frame) |-> QSub(high[t], low[t])]
      high_close == [t \in 1..Len(frame) |-> QAbs(QSub(high[t], prev[t]))]
      low_close == [t \in 1..Len(frame) |-> QAbs(QSub(low[t], prev[t]))]
      tr == [t \in 1..Len(frame) |->
               QMax({high_low[t], high_close[t], low_close[t]} \ {QNaN})]
  IN  <<ewm_mean(tr, period)>>

\* calculate_roc: pct_change(periods=period) * 100.
calculate_roc(frame, period) ==
  LET close == Column(frame, "Close")
  IN  <<[t \in 1..Len(frame) |->
           IF t <= period THEN QNaN
           ELSE QScale(100, QSub(QDiv(close[t], close[t - period]), Q(1, 1)))]>>

calculate_sma(frame, period) == <<rolling_mean(Column(frame, "Close"), period)>>

\* calculate_stochastic: returns slow_k, slow_d.
calculate_stochastic(frame, k_period, d_period, smoothing_period) ==
  LET lowest_low == rolling_min(Column(frame, "Low"), k_period)
      highest_high == rolling_max(Column(frame, "High"), k_period)
      close == Column(frame, "Close")
      range_hl == [t \in 1..Len(frame) |-> QSub(highest_high[t], lowest_low[t])]
      raw == [t \in 1..Len(frame) |->
                QScale(100, QDiv(QSub(close[t], lowest_low[t]), range_hl[t]))]
      fast_k == series_fillna(replace_inf(raw), Q(0, 1))
      slow_k == rolling_mean(fast_k, smoothing_period)
      slow_d == rolling_mean(slow_k, d_period)
  IN  <<slow_k, slow_d>>

\* calculate_macd: returns macd_line, signal_line, histogram.
calculate_macd(frame, fast_period, slow_period, signal_period) ==
  LET close == Column(frame, "Close")
      exp1 == ewm_mean(close, fast_period)
      exp2 == ewm_mean(close, slow_period)
      macd_line == [t \in 1..Len(frame) |-> QSub(exp1[t], exp2[t])]
      signal_line == ewm_mean(macd_line, signal_period)
      histogram == [t \in 1..Len(frame) |-> QSub(macd_line[t], signal_line[t])]
  IN  <<macd_line, signal_line, histogram>>

\* Inputs of the indicator functions: bars with Low <= Close <= High (one of
\* them flat, one closing on its low), and periods.
IndBars ==
  {[Low |-> 2, Close |-> 2, High |-> 2],
   [Low |-> 1, Close |-> 1, High |-> 3],
   [Low |-> 1, Close |-> 3, High |-> 4]}

DataFrames == UNION {[1..n -> IndBars] : n \in 0..MaxLen}

IndPeriods == 1..3

NoPeriods == <<>>

\* Column names of the data frame: all three price columns, or some absent.
PriceColumns == {"High", "Low", "Close"}

ColumnSets == {PriceColumns, {"High", "Low"}, {"Low", "Close"}, {"Close"}}

\* Faulty variant of required_columns: every function asks for Close only.
required_columns_close(fn) == {"Close"}

\* The columns a function's first statement asks for (ValueError if one is
\* absent).
required_columns(fn) ==
  IF fn \in {"calculate_atr", "calculate_stochastic"} THEN {"High", "Low", "Close"}
  ELSE {"Close"}

\* The columns the function's body indexes (df['High'] raises KeyError on a
\* frame without that column).
columns_read(fn) ==
  IF fn \in {"calculate_atr", "calculate_stochastic"} THEN {"High", "Low", "Close"}
  ELSE {"Close"}

\* What a call of fn on a frame with the columns cols leaves: the exception
\* raised, or the tuple out of the series returned.
Call(fn, cols, out) ==
  IF ~(required_columns(fn) \subseteq cols)
  THEN [fn |-> fn, raised |-> "ValueError", out |-> <<>>]
  ELSE IF ~(columns_read(fn) \subseteq cols)
  THEN [fn |-> fn, raised |-> "KeyError", out |-> <<>>]
  ELSE [fn |-> fn, raised |-> "None", out |-> out]

NoSeries == [fn |-> "none", raised |-> "None", out |-> <<>>]

IndIdle ==
  /\ df = <<>>
  /\ columns = PriceColumns
  /\ periods = NoPeriods
  /\ series = NoSeries

\* ------------------------------------------------------------------------
\* get_signals

\* Faulty variant of get_signals: the event list itself is handed out.
get_signals_shared(sigs) == [alias |-> TRUE, rows |-> sigs]

\* get_signals: pd.DataFrame(self.signals), a frame with one row per event,
\* in the order of the list, built from the list's values.  alias tells
\* whether the frame shares the engine's list.
get_signals(sigs) == [alias |-> FALSE, rows |-> sigs]

\* A frame that shares the engine's list holds what the list holds.
Shared(frame, sigs) == IF frame.alias THEN [frame EXCEPT !.rows = sigs] ELSE frame

NoSnapshot == [op |-> "none", frame |-> [alias |-> FALSE, rows |-> <<>>]]

\* ------------------------------------------------------------------------
\* Backtester (imported by optimizer.py from src/src/backtester.py, which is
\* not part of the sources; modelled from its description, spec.md 4.3)

\* Capital and commission the optimizer hands to every Backtester, in the unit
\* of the engine's prices.
backtester_initial_capital == 100

backtester_commission_per_trade == 0

RECURSIVE SumSeq(_)
SumSeq(s) == IF s = <<>> THEN 0 ELSE Head(s) + SumSeq(Tail(s))

\* Integer part of the square root.
ISqrt(n) == CHOOSE r \in 0..n : r * r <= n /\ (r + 1) * (r + 1) > n

\* The exit that closes the entry at position i: the next exit of its side
\* (0 when there is none).
NextExit(sigs, i) ==
  LET side == IF sigs[i].type = "entry_long" THEN "exit_long" ELSE "exit_short"
      later == {j \in (i + 1)..Len(sigs) : sigs[j].type = side}
  IN IF later = {} THEN 0 ELSE CHOOSE j \in later : \A k \in later : j <= k

\* The position at which event e goes into the list sorted by timestamp:
\* after the events that are not later than it.
InsertAt(sorted, e) == Cardinality({j \in 1..Len(sorted) : sorted[j].timestamp <= e.timestamp})

RECURSIVE replay_order(_)
\* The events in timestamp order, events of one timestamp in list order.
replay_order(sigs) ==
  IF sigs = <<>> THEN <<>>
  ELSE CHOOSE out \in
         {SubSeq(sorted, 1, InsertAt(sorted, sigs[Len(sigs)]))
            \o <<sigs[Len(sigs)]>>
            \o SubSeq(sorted, InsertAt(sorted, sigs[Len(sigs)]) + 1, Len(sorted)) :
            sorted \in {replay_order(SubSeq(sigs, 1, Len(sigs) - 1))}} : TRUE

\* Faulty variant of realized_pnl: the long formula on either side.
realized_pnl_long_only(type, entry, exit) == exit - entry

\* Realized P&L of a pair before commission.
realized_pnl(type, entry, exit) ==
  IF type = "entry_long" THEN exit - entry ELSE entry - exit

RECURSIVE LedgerFrom(_, _, _)
\* Ledger rows of the entries at positions i, i + 1, ... of the event list:
\* one row per entry that has an exit, its P&L before commission (gross) and
\* after the commission charged at entry and at exit (pnl).
LedgerFrom(sigs, i, commission) ==
  IF i > Len(sigs) THEN <<>>
  ELSE IF sigs[i].type \in {"entry_long", "entry_short"} /\ NextExit(sigs, i) # 0
  THEN CHOOSE rows \in
         {<<[entry_time |-> sigs[i].timestamp, exit_time |-> x.timestamp,
             type |-> sigs[i].type, entry_price |-> sigs[i].price,
             exit_price |-> x.price, gross |-> gross,
             pnl |-> gross - commission - commission]>>
            \o LedgerFrom(sigs, i + 1, commission) :
            <<x, gross>> \in
              {<<y, realized_pnl(sigs[i].type, sigs[i].price, y.price)>> :
                 y \in {sigs[NextExit(sigs, i)]}}} : TRUE
  ELSE LedgerFrom(sigs, i + 1, commission)

\* run_backtest: the ledger of an event list.
run_backtest(sigs, commission) == LedgerFrom(replay_order(sigs), 1, commission)

\* Faulty variant of EquityCurve: a point moves by the row's P&L before
\* commission.
EquityCurve_gross(ledger, initial_capital) ==
  [k \in 1..(Len(ledger) + 1) |->
     initial_capital + SumSeq([j \in 1..(k - 1) |-> ledger[j].gross])]

\* The values of the equity series: the initial capital, then one point per
\* ledger row, the point before it moved by the row's net P&L.
EquityCurve(ledger, initial_capital) ==
  [k \in 1..(Len(ledger) + 1) |->
     initial_capital + SumSeq([j \in 1..(k - 1) |-> ledger[j].pnl])]

\* The timestamps of the equity series: the start of the run, then each
\* row's exit timestamp.
EquityIndex(ledger, start) ==
  [k \in 1..(Len(ledger) + 1) |-> IF k = 1 THEN start ELSE ledger[k - 1].exit_time]

\* get_results: the ledger and the equity series (values and timestamps) of a
\* backtest on data whose first bar is at Timestamp(1).
get_results(sigs, initial_capital, commission) ==
  CHOOSE got \in
    {[trade_log |-> ledger, equity_curve |-> EquityCurve(ledger, initial_capital),
      equity_index |-> EquityIndex(ledger, Timestamp(1))] :
       ledger \in {run_backtest(sigs, commission)}} : TRUE

MetricNames ==
  {"total_return", "sharpe_ratio", "max_drawdown", "win_rate", "profit_factor",
   "trade_count"}

\* calculate_metrics.  Ratios are in hundredths, rounded down; a metric that
\* cannot be computed (Sharpe of fewer than two or of equal returns, profit
\* factor without a losing trade) is NaN.
calculate_metrics(trade_log, equity_curve) ==
  IF trade_log = <<>> \/ Len(equity_curve) < 2
  THEN [m \in MetricNames |-> NaN]
  ELSE
    LET n == Len(trade_log)
        x == [k \in 1..n |-> trade_log[k].pnl]
        total == SumSeq(x)
        spread == n * SumSeq([k \in 1..n |-> x[k] * x[k]]) - total * total
        gross_profit == SumSeq([k \in 1..n |-> IF x[k] > 0 THEN x[k] ELSE 0])
        gross_loss == SumSeq([k \in 1..n |-> IF x[k] < 0 THEN 0 - x[k] ELSE 0])
        wins == Cardinality({k \in 1..n : x[k] > 0})
        drawdowns ==
          {((equity_curve[q[1]] - equity_curve[q[2]]) * 100) \div equity_curve[q[1]] :
             q \in {r \in (1..(n + 1)) \X (1..(n + 1)) : r[1] <= r[2]}}
    IN [total_return |->
          (100 * (equity_curve[n + 1] - equity_curve[1])) \div equity_curve[1],
        sharpe_ratio |->
          IF n < 2 \/ spread = 0 THEN NaN ELSE (100 * total) \div ISqrt(spread),
        max_drawdown |-> max(drawdowns),
        win_rate |-> (100 * wins) \div n,
        profit_factor |->
          IF gross_loss = 0 THEN NaN ELSE (100 * gross_profit) \div gross_loss,
        trade_count |-> n]

\* Inputs of the backtester: event lists in which entries and exits of one
\* side alternate, as the engine emits them.  An exit is on a later bar than
\* its entry; an entry is on the bar of the exit before it or on a later one.
MaxEvents == 4

BackPrices == {100, 103}

BackCommissions == {0, 1, 2}

Extensions(s) ==
  IF Len(s) % 2 = 0
  THEN {Append(s, Event(ts, type, price,
                        IF type = "entry_long"
                        THEN "consolidation_breakout_long_confirmed"
                        ELSE "consolidation_breakout_short_confirmed")) :
          ts \in IF s = <<>> THEN {Timestamp(2)}
                 ELSE {s[Len(s)].timestamp, s[Len(s)].timestamp + 60},
          type \in {"entry_long", "entry_short"},
          price \in BackPrices}
  ELSE {Append(s, Event(s[Len(s)].timestamp + 60,
                        IF s[Len(s)].type = "entry_long" THEN "exit_long"
                        ELSE "exit_short",
                        price, "trailing_stop")) :
          price \in BackPrices}

RECURSIVE EventLists(_)
\* The lists of at most n events.
EventLists(n) ==
  IF n = 0 THEN {<<>>}
  ELSE LET shorter == EventLists(n - 1)
       IN shorter \cup UNION {Extensions(s) : s \in {x \in shorter : Len(x) = n - 1}}

NoBacktest(sigs, commission) ==
  [signals |-> sigs, commission |-> commission, done |-> FALSE, trade_log |-> <<>>,
   equity_curve |-> <<>>, equity_index |-> <<>>]

BackIdle == backtest = NoBacktest(<<>>, 0)

\* No exception, no command-line run and no fetch under way.
NoError == [by |-> "none", error |-> "None"]

RunIdle ==
  /\ exception = NoError
  /\ main = [pc |-> "idle"]
  /\ fetch = [pc |-> "idle"]

\* ------------------------------------------------------------------------
\* Optimizer (src/src/optimizer.py)

\* Number of run_grid_search calls made on one optimizer.
MaxCalls == 2

\* Python's None as the value _evaluate_params returns in place of a metrics
\* dictionary.
None == [None |-> TRUE]

\* The keys of main.py's param_ranges the engine reads, in its order.
KeyOrder ==
  <<"atr_period", "atr_threshold_factor", "roc_period", "roc_threshold",
    "trend_ma_period", "atr_stop_multiple",
    "fast_stoch_k_period_1", "fast_stoch_d_period_1", "fast_stoch_smoothing_1",
    "fast_stoch_k_period_2", "fast_stoch_d_period_2", "fast_stoch_smoothing_2",
    "slow_stoch_k_period_1", "slow_stoch_d_period_1", "slow_stoch_smoothing_1",
    "slow_stoch_k_period_2", "slow_stoch_d_period_2", "slow_stoch_smoothing_2",
    "stoch_oversold", "stoch_overbought",
    "stoch_oversold_60_10_10_alert", "stoch_overbought_60_10_10_alert",
    "macd_fast_period", "macd_slow_period", "macd_signal_period">>

\* The keys process_bar reads to compute max_lookback.
PeriodKeys ==
  {"trend_ma_period", "atr_period", "roc_period",
   "fast_stoch_k_period_1", "fast_stoch_d_period_1", "fast_stoch_smoothing_1",
   "fast_stoch_k_period_2", "fast_stoch_d_period_2", "fast_stoch_smoothing_2",
   "slow_stoch_k_period_1", "slow_stoch_d_period_1", "slow_stoch_smoothing_1",
   "slow_stoch_k_period_2", "slow_stoch_d_period_2", "slow_stoch_smoothing_2",
   "macd_fast_period", "macd_slow_period", "macd_signal_period"}

\* The bar data: lead bars of warm-up, then one bar per reading.  A reading
\* holds the bar and the positions -1 and -2 of the indicator series of the
\* history that ends with it.
DataLen(d) == d.lead + Len(d.readings)

WarmUp ==
  [bar |-> [low |-> 100, close |-> 100, high |-> 100], current_atr |-> 1,
   avg_atr |-> 1, current_roc |-> 0, current_sma |-> 100,
   stoch |-> StochNeutral, macd |-> MacdFlat]

ReadingAt(d, n) == IF n > d.lead THEN d.readings[n - d.lead] ELSE WarmUp

\* process_bar raises on a slice of n bars: KeyError when a period key is
\* absent from the params, ValueError of ewm(span) for a span below 1 once the
\* indicators are computed.
process_bar_raises(p, n) ==
  \/ ~(PeriodKeys \subseteq DOMAIN p)
  \/ /\ n >= max_lookback(p)
     /\ \/ p.atr_period < 1
        \/ p.macd_fast_period < 1
        \/ p.macd_slow_period < 1
        \/ p.macd_signal_period < 1

\* process_bar on the engine e and a slice of n bars with readings r.
process_bar(p, e, n, r) ==
  IF n < max_lookback(p) THEN e
  ELSE CHOOSE after \in
         {entry_logic(p, exited, c) :
            <<c, exited>> \in {<<c0, exit_logic(p, e, c0)>> :
                                 c0 \in {core_indicators(p, n, r)}}} : TRUE

RECURSIVE feed(_, _, _, _)
\* for i in range(len(self.data)): strategy.process_bar(self.data.iloc[:i+1]),
\* from the slice of i + 1 bars on.
feed(p, d, i, e) ==
  IF i >= DataLen(d) THEN [raised |-> FALSE, strategy |-> e]
  ELSE IF process_bar_raises(p, i + 1) THEN [raised |-> TRUE, strategy |-> e]
  ELSE CHOOSE run \in
         {feed(p, d, i + 1, after) :
            after \in {process_bar(p, e, i + 1, ReadingAt(d, i + 1))}} : TRUE

\* The fields __init__ gives a new engine.
NoEngine == Engine(NoPosition, NoPrice, NoPrice, <<>>)

\* Faulty variant of MomentumIgnitionStrategy: the object of the previous
\* evaluation is used again.
MomentumIgnitionStrategy_reused(previous) == previous

\* MomentumIgnitionStrategy(strategy_params): a new object, whatever object
\* the previous evaluation left.
MomentumIgnitionStrategy(previous) == NoEngine

\* The locals of one _evaluate_params call: the engine after the loop over
\* the bars (and whether process_bar raised), trade_signals_df, the ledger and
\* equity series of the backtest, and the metrics.  Each x \in {e} names the
\* value of e.
evaluation(d, p, previous) ==
  {<<run, trade_signals, got, calculate_metrics(got.trade_log, got.equity_curve)>> :
     <<run, trade_signals, got>> \in
       {<<r, s, get_results(s, backtester_initial_capital,
                            backtester_commission_per_trade)>> :
          <<r, s>> \in
            {<<r0, get_signals(r0.strategy.signals).rows>> :
               r0 \in {feed(p, d, 0, MomentumIgnitionStrategy(previous))}}}}

\* The body of _evaluate_params' try block: "raise" when an exception leaves it.
try_evaluate(d, p, previous) ==
  CHOOSE out \in
    {IF run.raised THEN [kind |-> "raise", metrics |-> None, strategy |-> run.strategy]
     ELSE IF trade_signals = <<>>
     THEN [kind |-> "return", metrics |-> None, strategy |-> run.strategy]
     ELSE IF got.trade_log = <<>> \/ Len(got.equity_curve) < 2
     THEN [kind |-> "return", metrics |-> None, strategy |-> run.strategy]
     ELSE IF metrics.sharpe_ratio = NaN \/ metrics.total_return = NaN
     THEN [kind |-> "return", metrics |-> None, strategy |-> run.strategy]
     ELSE [kind |-> "return", metrics |-> metrics, strategy |-> run.strategy] :
       <<run, trade_signals, got, metrics>> \in evaluation(d, p, previous)} : TRUE

\* Faulty variant of evaluate_params: the exception is not caught.
evaluate_params_uncaught(d, p, previous) == try_evaluate(d, p, previous)

\* _evaluate_params
evaluate_params(d, p, previous) ==
  CHOOSE ret \in
    {IF out.kind = "raise"
     THEN [kind |-> "return", metrics |-> None, strategy |-> out.strategy]
     ELSE out :
       out \in {try_evaluate(d, p, previous)}} : TRUE

RECURSIVE Concat(_)
Concat(ss) == IF ss = <<>> THEN <<>> ELSE Head(ss) \o Concat(Tail(ss))

RECURSIVE product_first_fastest(_)
\* Faulty variant of product: the first list varies fastest.
product_first_fastest(lists) ==
  IF lists = <<>> THEN << <<>> >>
  ELSE CHOOSE all \in
         {Concat([j \in 1..Len(rest) |->
                    [i \in 1..Len(Head(lists)) |-> <<Head(lists)[i]>> \o rest[j]]]) :
            rest \in {product_first_fastest(Tail(lists))}} : TRUE

RECURSIVE product(_)
\* list(itertools.product(*values))
product(lists) ==
  IF lists = <<>> THEN << <<>> >>
  ELSE CHOOSE all \in
         {Concat([i \in 1..Len(Head(lists)) |->
                    [j \in 1..Len(rest) |-> <<Head(lists)[i]>> \o rest[j]]]) :
            rest \in {product(Tail(lists))}} : TRUE

\* dict(zip(keys, combo))
zip(keys, combo) ==
  [k \in {keys[i] : i \in 1..Len(keys)} |->
     combo[CHOOSE i \in 1..Len(keys) : keys[i] = k]]

\* {**current_params, **metrics}: a row of the result list.
result_entry(current_params, metrics) ==
  [params |-> current_params, metrics |-> metrics]

\* One pass of the loop body of run_grid_search on the combination combo.
\* st holds self.results, the latest strategy object, the evaluations made
\* and whether an exception has left the loop.
loop_body(d, keys, combo, st) ==
  CHOOSE next \in
    {[results |-> IF out.kind = "return" /\ out.metrics # None
                  THEN Append(st.results, result_entry(current_params, out.metrics))
                  ELSE st.results,
      strategy |-> out.strategy,
      evaluated |-> Append(st.evaluated,
                           [params |-> current_params,
                            row |-> out.kind = "return" /\ out.metrics # None]),
      raised |-> out.kind = "raise"] :
       <<current_params, out>> \in
         {<<c, evaluate_params(d, c, st.strategy)>> : c \in {zip(keys, combo)}}} : TRUE

RECURSIVE grid_loop(_, _, _, _, _)
\* The loop of run_grid_search from combination i on; an exception ends it.
grid_loop(d, keys, all_combinations, i, st) ==
  IF i > Len(all_combinations) THEN st
  ELSE CHOOSE final \in
         {IF next.raised THEN next
          ELSE grid_loop(d, keys, all_combinations, i + 1, next) :
            next \in {loop_body(d, keys, all_combinations[i], st)}} : TRUE

\* What the latest call of a public method handed back: the table it
\* returned or the exception that left it, with the call's name and, for
\* get_best_results, its arguments.
Returned(call, args, raised, table) ==
  [call |-> call, args |-> args, raised |-> raised, table |-> table]

NoArgs == [top_n |-> 0, sort_by |-> "", ascending |-> FALSE]

NoReturn == Returned("none", NoArgs, FALSE, <<>>)

NoSearch ==
  [param_ranges |-> [keys |-> <<>>, values |-> <<>>], optimize_metric |-> "",
   results_before |-> <<>>]

\* float('inf') and float('-inf')
Inf == 2000000

NegInf == -2000000

\* The value of column col in a row of pd.DataFrame(self.results): NaN where
\* the row's dictionary has no such key.
Cell(row, col) ==
  IF col \in DOMAIN row.metrics THEN row.metrics[col]
  ELSE IF col \in DOMAIN row.params THEN row.params[col]
  ELSE NaN

Columns(table) ==
  UNION {DOMAIN table[i].metrics \cup DOMAIN table[i].params : i \in 1..Len(table)}

\* results_df[col] = results_df[col].fillna(value)
fillna(table, col, value) ==
  [i \in 1..Len(table) |->
     IF Cell(table[i], col) = NaN
     THEN [table[i] EXCEPT !.metrics = [m \in DOMAIN @ \cup {col} |-> IF m = col THEN value ELSE @[m]]]
     ELSE table[i]]

RECURSIVE Orders(_, _, _, _)
\* The orders of the rows at the positions idx by column col: each starts
\* with a row whose value no other row precedes.
Orders(table, idx, col, ascending) ==
  IF idx = {} THEN {<<>>}
  ELSE UNION {{<<table[i]>> \o rest : rest \in Orders(table, idx \ {i}, col, ascending)} :
                i \in {k \in idx :
                         \A j \in idx :
                           IF ascending THEN Cell(table[k], col) <= Cell(table[j], col)
                           ELSE Cell(table[k], col) >= Cell(table[j], col)}}

\* The orders sort_values(by=col, ascending=ascending) can give: rows of equal
\* value come in an order the sort does not fix.
sort_values(table, col, ascending) == Orders(table, 1..Len(table), col, ascending)

\* DataFrame.head(n): the first n rows, or all but the last -n for n < 0.
head(table, n) ==
  IF n >= 0 THEN SubSeq(table, 1, Min2(n, Len(table)))
  ELSE SubSeq(table, 1, Max2(0, Len(table) + n))

\* Faulty variant of get_best_results: missing values are filled with -inf
\* whatever the direction.
get_best_results_fill_low(res, top_n, sort_by, ascending) ==
  IF res = <<>> THEN {<<>>}
  ELSE
    LET by == IF sort_by \in Columns(res) THEN sort_by ELSE "total_return"
        results_df == fillna(res, by, NegInf)
    IN {head(sorted, top_n) : sorted \in sort_values(results_df, by, ascending)}

\* get_best_results: the tables it can return.
get_best_results(res, top_n, sort_by, ascending) ==
  IF res = <<>> THEN {<<>>}
  ELSE
    LET sort_value_for_nan == IF ~ascending THEN NegInf ELSE Inf
        by == IF sort_by \in Columns(res) THEN sort_by ELSE "total_return"
        results_df == fillna(res, by, sort_value_for_nan)
    IN {head(sorted, top_n) : sorted \in sort_values(results_df, by, ascending)}

\* ------------------------------------------------------------------------
\* Inputs of the optimizer

Reading(bar, atr, setup) ==
  [bar |-> bar, current_atr |-> atr, avg_atr |-> setup.avg_atr,
   current_roc |-> setup.current_roc, current_sma |-> setup.current_sma,
   stoch |-> setup.stoch, macd |-> setup.macd]

\* Bars that open a long or a short position under the base parameters.
OpenLong == Reading([low |-> 100, close |-> 100, high |-> 100], 2, SetupLong)

OpenShort == Reading([low |-> 100, close |-> 100, high |-> 100], 2, SetupShort)

\* Bars that stop a long position out: above its entry (by more or by less)
\* or below it.
StopLongUp ==
  Reading([low |-> 94, close |-> 103, high |-> 103], 1, [SetupLong EXCEPT !.current_roc = 0])

StopLongHigher ==
  Reading([low |-> 94, close |-> 104, high |-> 104], 1, [SetupLong EXCEPT !.current_roc = 0])

StopLongDown ==
  Reading([low |-> 94, close |-> 103, high |-> 103], 2, [SetupLong EXCEPT !.current_roc = 0])

\* A bar that stops a short position out below its entry.
StopShortDown ==
  Reading([low |-> 97, close |-> 97, high |-> 106], 1, [SetupShort EXCEPT !.current_roc = 0])

DataSet(lead, readings) == [lead |-> lead, readings |-> readings]

\* Data without a bar, data shorter than the lookback, and data leading to an
\* open position only, to one trade, to a winning and a losing trade, to two
\* winning trades, and to a short and a long trade.
DataSets ==
  {DataSet(0, <<>>),
   DataSet(18, <<>>),
   DataSet(19, <<OpenLong>>),
   DataSet(19, <<OpenLong, StopLongUp>>),
   DataSet(19, <<OpenLong, StopLongUp, OpenLong, StopLongDown>>),
   DataSet(19, <<OpenLong, StopLongUp, OpenLong, StopLongHigher>>),
   DataSet(19, <<OpenShort, StopShortDown, OpenLong, StopLongDown>>)}

\* param_ranges: the keys in insertion order and their candidate lists.  The
\* keys not in varied have the one candidate of ParamsA.
Ranges(keys, varied) ==
  [keys |-> keys,
   values |-> [i \in 1..Len(keys) |->
                 IF keys[i] \in DOMAIN varied THEN varied[keys[i]]
                 ELSE <<ParamsA[keys[i]]>>]]

Grids ==
  {Ranges(KeyOrder,
          [atr_threshold_factor |-> <<[num |-> 7, den |-> 10], [num |-> 3, den |-> 10]>>,
           roc_threshold |-> <<5, 25>>,
           atr_stop_multiple |-> <<[num |-> 5, den |-> 2], [num |-> 4, den |-> 2]>>]),
   Ranges(KeyOrder,
          [atr_stop_multiple |-> <<[num |-> 5, den |-> 2], [num |-> 4, den |-> 2]>>,
           macd_signal_period |-> <<9, 0>>]),
   Ranges(SelectSeq(KeyOrder, LAMBDA k : k # "macd_signal_period"),
          [atr_stop_multiple |-> <<[num |-> 5, den |-> 2], [num |-> 4, den |-> 2]>>]),
   Ranges(KeyOrder, [roc_threshold |-> <<>>])}

\* Names passed as optimize_metric.
OptimizeMetrics == {"sharpe_ratio", "profit_factor"}

\* Names passed as sort_by; the last is no column of the result table.
SortKeys == {"sharpe_ratio", "profit_factor", "sortino_ratio"}

TopNs == {-1, 1, 2}

\* Number of rows of a result list handed to get_best_results.
MaxRows == 3

\* A row of the result list: the combination is told by its atr_period; its
\* Sharpe ratio and total return are defined (optimizer.py:69), its profit
\* factor need not be.
BestRow(id, sharpe_ratio, profit_factor) ==
  result_entry([atr_period |-> id],
               [total_return |-> 5, sharpe_ratio |-> sharpe_ratio, max_drawdown |-> 0,
                win_rate |-> 100, profit_factor |-> profit_factor, trade_count |-> 2])

BestTables ==
  UNION {{[i \in 1..n |-> BestRow(i, v[i][1], v[i][2])] :
            v \in [1..n -> {<<100, NaN>>, <<200, 50>>, <<100, 150>>, <<200, NaN>>}]} :
           n \in 0..MaxRows}

\* No optimizer is constructed.
OptIdle ==
  /\ data = DataSet(0, <<>>)
  /\ results = <<>>
  /\ calls = 0
  /\ search = NoSearch
  /\ evaluated = <<>>
  /\ strategy = NoEngine
  /\ returned = NoReturn

\* ------------------------------------------------------------------------
\* Specification of one engine fed the data set one bar at a time

NotRun == [done |-> FALSE, long |-> FALSE, short |-> FALSE]

\* No confirmation check is called on its own.
ConfIdle ==
  /\ df_len = 0
  /\ stoch_series = StochNeutral
  /\ macd_series = MacdFlat
  /\ stoch_result = NotRun
  /\ macd_result = NotRun

\* The engine as __init__ leaves it.
EngineInit ==
  /\ len = 0
  /\ current_position = NoPosition
  /\ entry_price = NoPrice
  /\ trailing_stop_price = NoPrice
  /\ signals = <<>>
  /\ locals = Locals(FALSE, NoEngine, NoEngine, NoEngine, <<>>, 0)

\* MomentumIgnitionStrategy.__init__
Init ==
  /\ params \in ParamSets
  /\ EngineInit
  /\ ConfIdle
  /\ OptIdle
  /\ snapshot = NoSnapshot
  /\ IndIdle
  /\ BackIdle
  /\ RunIdle

\* The engine's fields after a call.
Return(e, l) ==
  /\ current_position' = e.current_position
  /\ entry_price' = e.entry_price
  /\ trailing_stop_price' = e.trailing_stop_price
  /\ signals' = e.signals
  /\ locals' = l

\* One iteration of the driver loop, strategy.process_bar(data.iloc[:i+1]):
\* process_bar on a slice of len + 1 bars whose readings are r.  Each stage of
\* the call is evaluated once and handed to the next.
ProcessBar(r) ==
  /\ len < MaxBars
  /\ \E e \in {Engine(current_position, entry_price, trailing_stop_price, signals)} :
       IF len + 1 < max_lookback(params)
       THEN Return(e, Locals(FALSE, e, e, e, <<>>, locals.atr_at_entry))
       ELSE \E c \in {core_indicators(params, len + 1, r)} :
            \E afterExit \in {exit_logic(params, e, c)} :
            \E after \in {entry_logic(params, afterExit, c)} :
              Return(after, Locals(TRUE, e, afterExit, after, c, locals.atr_at_entry))
  /\ len' = len + 1
  /\ snapshot' = [snapshot EXCEPT !.frame = Shared(@, signals')]
  /\ UNCHANGED <<params, confVars, optVars, indVars, backVars, runVars>>

Next == \E r \in Readings : ProcessBar(r)

Spec == Init /\ [][Next]_vars

\* ------------------------------------------------------------------------
\* Specification of one engine and a caller of get_signals

\* Readings fed to the engine: no entry, an entry on either side, a stop-out
\* of either side.
SnapReadings == {WarmUp, OpenLong, OpenShort, StopLongDown, StopShortDown}

\* get_signals(): the caller holds the frame returned.
GetSignals ==
  /\ snapshot' = [op |-> "get_signals", frame |-> get_signals(signals)]
  /\ UNCHANGED <<params, engineVars, confVars, optVars, indVars, backVars, runVars>>

\* The caller overwrites a column of the frame it holds, as
\* plot_price_with_signals does with signals_df['timestamp'].  A frame that
\* shares the engine's list changes the list with it.
ModifySnapshot ==
  /\ snapshot.op = "get_signals"
  /\ snapshot.frame.rows # <<>>
  /\ \E rows \in {[i \in 1..Len(snapshot.frame.rows) |->
                     [snapshot.frame.rows[i] EXCEPT !.timestamp = 0]]} :
       /\ snapshot' = [op |-> "modify", frame |-> [snapshot.frame EXCEPT !.rows = rows]]
       /\ signals' = IF snapshot.frame.alias THEN rows ELSE signals
  /\ UNCHANGED <<params, len, current_position, entry_price, trailing_stop_price,
                 locals, confVars, optVars, indVars, backVars, runVars>>

NextSnap ==
  \/ \E r \in SnapReadings : ProcessBar(r)
  \/ GetSignals
  \/ ModifySnapshot

InitSnap ==
  /\ params = ParamsA
  /\ EngineInit
  /\ ConfIdle
  /\ OptIdle
  /\ snapshot = NoSnapshot
  /\ IndIdle
  /\ BackIdle
  /\ RunIdle

SpecSnap == InitSnap /\ [][NextSnap]_vars

\* ------------------------------------------------------------------------
\* Specification of the two confirmation checks called on a data frame

\* Values of an oscillator or MACD position: NaN, and values on and between
\* the thresholds of the parameter sets.
StochValues == {NaN, 15, 18, 20, 80, 82, 85}

MacdValues == {NaN, -2, -1, 0, 1, 2}

\* s with one position of one series replaced by a value of V.
Replace1(s, V) ==
  {[s EXCEPT ![x] = [last |-> v, prev |-> s[x].prev]] : x \in StochSeries, v \in V}
  \cup
  {[s EXCEPT ![x] = [last |-> s[x].last, prev |-> v]] : x \in StochSeries, v \in V}

\* Readings that confirm long, confirm short or neither, with one position
\* replaced by any value and possibly one more missing.
StochInputs ==
  LET one == UNION {Replace1(b, StochValues) : b \in {StochLong, StochShort, StochNeutral}}
  IN one \cup UNION {Replace1(t, {NaN}) : t \in one}

MacdInputs ==
  [macd_line : MacdValues, signal_line : MacdValues,
   histogram : MacdValues, histogram_prev : MacdValues]

\* A data frame of df_len bars; a frame of fewer than 2 bars has no iloc[-2].
InitConf ==
  /\ params \in ParamSets
  /\ EngineInit
  /\ OptIdle
  /\ snapshot = NoSnapshot
  /\ IndIdle
  /\ BackIdle
  /\ RunIdle
  /\ stoch_result = NotRun
  /\ macd_result = NotRun
  /\ \/ /\ df_len \in {0, 1}
        /\ stoch_series \in {StochLong, StochShort}
        /\ macd_series \in {MacdLong, MacdShort}
     \/ /\ df_len \in {2, 3}
        /\ \/ stoch_series \in StochInputs /\ macd_series = MacdFlat
           \/ stoch_series = StochNeutral /\ macd_series \in MacdInputs

CheckStochastic ==
  /\ ~stoch_result.done
  /\ \E out \in {check_stochastic_confirmations(params, df_len, stoch_series)} :
       stoch_result' = [done |-> TRUE, long |-> out.long, short |-> out.short]
  /\ UNCHANGED <<params, engineVars, optVars, snapVars, indVars, backVars, runVars, df_len,
               stoch_series, macd_series, macd_result>>

CheckMacd ==
  /\ ~macd_result.done
  /\ \E out \in {check_macd_confirmation(df_len, macd_series)} :
       macd_result' = [done |-> TRUE, long |-> out.long, short |-> out.short]
  /\ UNCHANGED <<params, engineVars, optVars, snapVars, indVars, backVars, runVars, df_len,
               stoch_series, macd_series, stoch_result>>

NextConf == CheckStochastic \/ CheckMacd

SpecConf == InitConf /\ [][NextConf]_vars

\* ------------------------------------------------------------------------
\* Specification of one optimizer

\* StrategyOptimizer.__init__ on a data set.
InitOpt ==
  /\ params = ParamsA
  /\ EngineInit
  /\ ConfIdle
  /\ data \in DataSets
  /\ results = <<>>
  /\ calls = 0
  /\ search = NoSearch
  /\ evaluated = <<>>
  /\ strategy = NoEngine
  /\ returned = NoReturn
  /\ snapshot = NoSnapshot
  /\ IndIdle
  /\ BackIdle
  /\ RunIdle

\* run_grid_search(param_ranges, optimize_metric): the whole call.
RunGridSearch(param_ranges, optimize_metric) ==
  /\ calls < MaxCalls
  /\ \E all_combinations \in {product(param_ranges.values)} :
     \E st \in {grid_loop(data, param_ranges.keys, all_combinations, 1,
                          [results |-> results, strategy |-> strategy,
                           evaluated |-> <<>>, raised |-> FALSE])} :
       /\ results' = st.results
       /\ strategy' = st.strategy
       /\ evaluated' = st.evaluated
       /\ returned' = IF st.raised THEN Returned("run_grid_search", NoArgs, TRUE, <<>>)
                      ELSE Returned("run_grid_search", NoArgs, FALSE, st.results)
  /\ search' = [param_ranges |-> param_ranges, optimize_metric |-> optimize_metric,
                results_before |-> results]
  /\ calls' = calls + 1
  /\ UNCHANGED <<params, engineVars, confVars, snapVars, indVars, backVars, runVars, data>>

\* get_best_results(top_n, sort_by, ascending)
GetBestResults(top_n, sort_by, ascending) ==
  /\ \E table \in get_best_results(results, top_n, sort_by, ascending) :
       returned' = Returned("get_best_results",
                            [top_n |-> top_n, sort_by |-> sort_by,
                             ascending |-> ascending],
                            FALSE, table)
  /\ UNCHANGED <<params, engineVars, confVars, snapVars, indVars, backVars, runVars, data, results,
                 calls, search, evaluated, strategy>>

\* run_grid_search on any grid, and get_best_results as main.py calls it
\* (top_n=5, sort_by='sharpe_ratio', ascending=False); its other arguments
\* are those of SpecBest.
NextOpt ==
  \/ \E param_ranges \in Grids, optimize_metric \in OptimizeMetrics :
       RunGridSearch(param_ranges, optimize_metric)
  \/ GetBestResults(5, "sharpe_ratio", FALSE)

SpecOpt == InitOpt /\ [][NextOpt]_vars

\* ------------------------------------------------------------------------
\* Specification of get_best_results on a result list

InitBest ==
  /\ params = ParamsA
  /\ EngineInit
  /\ ConfIdle
  /\ data = DataSet(0, <<>>)
  /\ results \in BestTables
  /\ calls = 0
  /\ search = NoSearch
  /\ evaluated = <<>>
  /\ strategy = NoEngine
  /\ returned = NoReturn
  /\ snapshot = NoSnapshot
  /\ IndIdle
  /\ BackIdle
  /\ RunIdle

\* One call on the list: get_best_results leaves self.results as it is, so a
\* further call is a call on the same list.
NextBest ==
  /\ returned = NoReturn
  /\ \E top_n \in TopNs, sort_by \in SortKeys, ascending \in BOOLEAN :
       GetBestResults(top_n, sort_by, ascending)

SpecBest == InitBest /\ [][NextBest]_vars

\* ------------------------------------------------------------------------
\* Specification of the indicator functions called on a data frame

\* Each action is one call; periods holds the periods passed, series the
\* name of the function and the exception it raised or the tuple of series it
\* returned.
CalculateAtr(period) ==
  /\ periods' = <<period>>
  /\ series' = Call("calculate_atr", columns, calculate_atr(df, period))
  /\ UNCHANGED <<params, engineVars, confVars, optVars, snapVars, backVars, runVars, df, columns>>

CalculateRoc(period) ==
  /\ periods' = <<period>>
  /\ series' = Call("calculate_roc", columns, calculate_roc(df, period))
  /\ UNCHANGED <<params, engineVars, confVars, optVars, snapVars, backVars, runVars, df, columns>>

CalculateSma(period) ==
  /\ periods' = <<period>>
  /\ series' = Call("calculate_sma", columns, calculate_sma(df, period))
  /\ UNCHANGED <<params, engineVars, confVars, optVars, snapVars, backVars, runVars, df, columns>>

CalculateStochastic(k_period, d_period, smoothing_period) ==
  /\ periods' = <<k_period, d_period, smoothing_period>>
  /\ series' = Call("calculate_stochastic", columns,
                     calculate_stochastic(df, k_period, d_period, smoothing_period))
  /\ UNCHANGED <<params, engineVars, confVars, optVars, snapVars, backVars, runVars, df, columns>>

CalculateMacd(fast_period, slow_period, signal_period) ==
  /\ periods' = <<fast_period, slow_period, signal_period>>
  /\ series' = Call("calculate_macd", columns,
                     calculate_macd(df, fast_period, slow_period, signal_period))
  /\ UNCHANGED <<params, engineVars, confVars, optVars, snapVars, backVars, runVars, df, columns>>

\* One call per data frame: the functions keep no state, so a further call
\* is a first call on the same frame.
NextInd ==
  /\ series = NoSeries
  /\ \/ \E period \in IndPeriods : CalculateAtr(period)
     \/ \E period \in IndPeriods : CalculateRoc(period)
     \/ \E period \in IndPeriods : CalculateSma(period)
     \/ \E k_period \in IndPeriods, d_period \in IndPeriods, smoothing_period \in IndPeriods :
          CalculateStochastic(k_period, d_period, smoothing_period)
     \/ \E fast_period \in IndPeriods, slow_period \in IndPeriods, signal_period \in IndPeriods :
          CalculateMacd(fast_period, slow_period, signal_period)

InitInd ==
  /\ params = ParamsA
  /\ EngineInit
  /\ ConfIdle
  /\ OptIdle
  /\ snapshot = NoSnapshot
  /\ df \in DataFrames
  /\ columns \in ColumnSets
  /\ periods = NoPeriods
  /\ series = NoSeries
  /\ BackIdle
  /\ RunIdle

SpecInd == InitInd /\ [][NextInd]_vars

\* ------------------------------------------------------------------------
\* Specification of one Backtester run on an event list

\* run_backtest(signals) and get_results() on a Backtester built with the
\* optimizer's initial capital and a commission.
RunBacktest ==
  /\ ~backtest.done
  /\ \E got \in {get_results(backtest.signals, backtester_initial_capital,
                             backtest.commission)} :
       backtest' = [backtest EXCEPT !.done = TRUE, !.trade_log = got.trade_log,
                                    !.equity_curve = got.equity_curve,
                                    !.equity_index = got.equity_index]
  /\ UNCHANGED <<params, engineVars, confVars, optVars, snapVars, indVars, runVars>>

NextBack == RunBacktest

InitBack ==
  /\ params = ParamsA
  /\ EngineInit
  /\ ConfIdle
  /\ OptIdle
  /\ snapshot = NoSnapshot
  /\ IndIdle
  /\ \E sigs \in EventLists(MaxEvents), commission \in BackCommissions :
       backtest = NoBacktest(sigs, commission)
  /\ RunIdle

SpecBack == InitBack /\ [][NextBack]_vars

\* ------------------------------------------------------------------------
\* Specification of one engine built from any parameter dictionary and called
\* on slices of any length

\* Longest event log on which a further call is made.
MaxSignals == 2

\* The keys process_bar and the confirmation checks read from self.params.
RequiredKeys ==
  PeriodKeys \cup {"atr_threshold_factor", "roc_threshold", "atr_stop_multiple",
                   "stoch_oversold", "stoch_overbought",
                   "stoch_oversold_60_10_10_alert", "stoch_overbought_60_10_10_alert"}

\* The keys read between the lookback guard and the exit logic by process_bar
\* itself, before it writes any field.
IndicatorKeys ==
  {"atr_period", "atr_threshold_factor", "roc_period", "roc_threshold", "trend_ma_period"}

\* The dictionary p without the key k.
Without(p, k) == [x \in DOMAIN p \ {k} |-> p[x]]

\* Dictionaries handed to the constructor: complete ones, and ones that lack
\* a key read before the lookback guard, a key read after it before any field
\* is written, or the key read by the exit and entry blocks.
ParamDicts ==
  ParamSets \cup {Without(p, k) : p \in ParamSets,
                                  k \in {"macd_signal_period", "roc_threshold",
                                         "atr_stop_multiple"}}

\* Lengths of the slices handed to process_bar: on either side of the
\* lookbacks 19 and 21 of the complete dictionaries.
SliceLens == {1, 18, 20, 22}

\* Readings of those slices: every entry condition of a side met, or all but
\* the MACD confirmation.
SliceReadings ==
  {[bar |-> b, current_atr |-> a, avg_atr |-> s.avg_atr, current_roc |-> s.current_roc,
    current_sma |-> s.current_sma, stoch |-> s.stoch, macd |-> s.macd] :
     b \in Bars, a \in ATRs,
     s \in {SetupLong, SetupShort, [SetupLong EXCEPT !.macd = MacdFlat]}}

\* The exception MomentumIgnitionStrategy.__init__(p) raises: it stores p and
\* reads no key of it.
init_raises(p) == "None"

\* Faulty variant of lookback_guard_return: the guard's return drops the open
\* position.
lookback_guard_return_flat(e) == Engine(NoPosition, NoPrice, NoPrice, e.signals)

\* The engine after "if len(current_data_slice) < max_lookback: return".
lookback_guard_return(e) == e

KeyError == [by |-> "process_bar", error |-> "KeyError"]

\* The entry block on a dictionary without 'atr_stop_multiple': the event is
\* appended and current_position and entry_price are set before the stop's
\* computation reads the key and raises, so trailing_stop_price keeps its
\* value.  With no multiple to scale by, prices are in units of 1.
entry_interrupted(e, c) ==
  IF long_entry_condition(c)
  THEN Engine("long", Some(c.current_close), e.trailing_stop_price,
              Append(e.signals,
                     Event(c.current_timestamp, "entry_long", c.current_close,
                           "consolidation_breakout_long_confirmed")))
  ELSE Engine("short", Some(c.current_close), e.trailing_stop_price,
              Append(e.signals,
                     Event(c.current_timestamp, "entry_short", c.current_close,
                           "consolidation_breakout_short_confirmed")))

\* process_bar past the indicators on a dictionary without
\* 'atr_stop_multiple': the exit block raises on an open position before it
\* writes a field, the entry block raises once its conditions are met, and a
\* flat engine whose bar meets no entry condition returns normally.
process_bar_without_multiple(e, c) ==
  IF e.current_position # NoPosition THEN [engine |-> e, raised |-> TRUE]
  ELSE IF long_entry_condition(c) \/ short_entry_condition(c)
  THEN [engine |-> entry_interrupted(e, c), raised |-> TRUE]
  ELSE [engine |-> e, raised |-> FALSE]

\* strategy.process_bar(slice) on a slice of n bars whose readings are r, on
\* an engine built from any dictionary.
ProcessSlice(n, r) ==
  /\ Len(signals) < MaxSignals
  /\ \E e \in {Engine(current_position, entry_price, trailing_stop_price, signals)} :
       IF ~(PeriodKeys \subseteq DOMAIN params)
       THEN /\ Return(e, Locals(FALSE, e, e, e, <<>>, locals.atr_at_entry))
            /\ exception' = KeyError
       ELSE IF n < max_lookback(params)
       THEN /\ Return(lookback_guard_return(e),
                      Locals(FALSE, e, e, e, <<>>, locals.atr_at_entry))
            /\ exception' = NoError
       ELSE IF ~(IndicatorKeys \subseteq DOMAIN params)
       THEN /\ Return(e, Locals(TRUE, e, e, e, <<>>, locals.atr_at_entry))
            /\ exception' = KeyError
       ELSE IF "atr_stop_multiple" \notin DOMAIN params
       THEN \E c \in {core_indicators(params, n, r)} :
            \E out \in {process_bar_without_multiple(e, c)} :
              /\ Return(out.engine,
                        Locals(TRUE, e, e, out.engine, c, locals.atr_at_entry))
              /\ exception' = IF out.raised THEN KeyError ELSE NoError
       ELSE /\ \E c \in {core_indicators(params, n, r)} :
               \E afterExit \in {exit_logic(params, e, c)} :
               \E after \in {entry_logic(params, afterExit, c)} :
                 Return(after, Locals(TRUE, e, afterExit, after, c, locals.atr_at_entry))
            /\ exception' = NoError
  /\ len' = n
  /\ snapshot' = [snapshot EXCEPT !.frame = Shared(@, signals')]
  /\ UNCHANGED <<params, confVars, optVars, indVars, backVars, main, fetch>>

NextSlice == \E n \in SliceLens, r \in SliceReadings : ProcessSlice(n, r)

\* MomentumIgnitionStrategy(params) on any dictionary.
InitSlice ==
  /\ params \in ParamDicts
  /\ EngineInit
  /\ ConfIdle
  /\ OptIdle
  /\ snapshot = NoSnapshot
  /\ IndIdle
  /\ BackIdle
  /\ exception = IF init_raises(params) = "None" THEN NoError
                 ELSE [by |-> "__init__", error |-> init_raises(params)]
  /\ main = [pc |-> "idle"]
  /\ fetch = [pc |-> "idle"]

SpecSlice == InitSlice /\ [][NextSlice]_vars

\* ------------------------------------------------------------------------
\* Specification of the engine on readings whose parts point in different
\* directions

\* A parameter set whose oversold level lies above its overbought level, so
\* that one stochastic value is both, and whose ROC threshold is negative.
ParamsOverlap ==
  [ParamsA EXCEPT !.stoch_oversold = 95, !.stoch_overbought = 5,
                  !.stoch_oversold_60_10_10_alert = 95,
                  !.stoch_overbought_60_10_10_alert = 5,
                  !.roc_threshold = -5]

\* Low oscillators whose slowest %K crosses below %D, and high oscillators
\* whose slowest %K crosses above %D.
StochLowCrossDown ==
  [StochLong EXCEPT !.slow_k_60_10_10 = [last |-> 8, prev |-> 12],
                    !.slow_d_60_10_10 = [last |-> 10, prev |-> 8]]

StochHighCrossUp ==
  [StochShort EXCEPT !.slow_k_60_10_10 = [last |-> 92, prev |-> 88],
                     !.slow_d_60_10_10 = [last |-> 90, prev |-> 92]]

MixedStochs == {StochLong, StochShort, StochLowCrossDown, StochHighCrossUp}

MixedMacds ==
  {MacdLong, MacdShort,
   [MacdLong EXCEPT !.histogram = -1, !.histogram_prev = 1],
   [MacdShort EXCEPT !.histogram = 1, !.histogram_prev = -1]}

\* A bar that breaches no stop, and one that breaches a long stop set on the
\* first.
MixedBars == {[low |-> 100, close |-> 100, high |-> 100],
              [low |-> 94, close |-> 94, high |-> 100]}

\* Readings of a consolidating market: every combination of a ROC, an SMA,
\* a stochastic reading and a MACD reading.
MixedReadings ==
  {[bar |-> b, current_atr |-> 1, avg_atr |-> 5, current_roc |-> roc,
    current_sma |-> sma, stoch |-> st, macd |-> m] :
     b \in MixedBars, roc \in {-20, 0, 20}, sma \in {93, 100, 104},
     st \in MixedStochs, m \in MixedMacds}

NextMixed == \E r \in MixedReadings : ProcessBar(r)

InitMixed ==
  /\ params \in {ParamsA, ParamsOverlap}
  /\ EngineInit
  /\ ConfIdle
  /\ OptIdle
  /\ snapshot = NoSnapshot
  /\ IndIdle
  /\ BackIdle
  /\ RunIdle

SpecMixed == InitMixed /\ [][NextMixed]_vars

\* ------------------------------------------------------------------------
\* Specification of the values process_bar reads from the indicator series
\* on its first calls past the lookback guard

\* Longest period of a dictionary, and the number of bars by which a slice
\* may be longer than the shortest slice that passes the guard (3 bars).
MaxPeriod == 2

MaxExtra == 2

\* A dictionary's period keys: the 60,10,10 stochastic's periods, one period
\* for the trend SMA and the ROC, and 1 for every other period.
PeriodDict(k_period, d_period, smoothing_period, period) ==
  [key \in PeriodKeys |->
     CASE key = "slow_stoch_k_period_2" -> k_period
       [] key = "slow_stoch_d_period_2" -> d_period
       [] key = "slow_stoch_smoothing_2" -> smoothing_period
       [] key \in {"trend_ma_period", "roc_period"} -> period
       [] OTHER -> 1]

PeriodDicts ==
  {PeriodDict(k, d, s, m) : k \in 1..MaxPeriod, d \in 1..MaxPeriod,
                            s \in 1..MaxPeriod, m \in 1..MaxPeriod}

\* Slices handed to process_bar.
Slices == UNION {[1..n -> IndBars] : n \in 3..(3 + MaxExtra)}

\* The values process_bar and _check_stochastic_confirmations read from the
\* series of the slice: %K and %D of the 60,10,10 stochastic at iloc[-1] and
\* iloc[-2], the trend SMA and the ROC at iloc[-1].
indicator_reads(slice, p) ==
  CHOOSE reads \in
    {[stoch_60_10_10_k |-> stoch[1][Len(slice)],
      stoch_60_10_10_d |-> stoch[2][Len(slice)],
      stoch_60_10_10_k_prev |-> stoch[1][Len(slice) - 1],
      stoch_60_10_10_d_prev |-> stoch[2][Len(slice) - 1],
      current_sma |-> sma[1][Len(slice)],
      current_roc |-> roc[1][Len(slice)]] :
       <<stoch, sma, roc>> \in
         {<<calculate_stochastic(slice, p.slow_stoch_k_period_2, p.slow_stoch_d_period_2,
                                 p.slow_stoch_smoothing_2),
            calculate_sma(slice, p.trend_ma_period),
            calculate_roc(slice, p.roc_period)>>}} : TRUE

\* process_bar(df) up to the reads of the indicator series: nothing is read
\* on a slice that the lookback guard turns away.
ReadIndicators ==
  /\ series = NoSeries
  /\ series' = IF Len(df) < max_lookback(params)
               THEN [fn |-> "process_bar", raised |-> "None", out |-> <<>>]
               ELSE [fn |-> "process_bar", raised |-> "None",
                     out |-> <<indicator_reads(df, params)>>]
  /\ UNCHANGED <<params, engineVars, confVars, optVars, snapVars, backVars, runVars, df,
                 columns, periods>>

NextReads == ReadIndicators

InitReads ==
  /\ params \in PeriodDicts
  /\ EngineInit
  /\ ConfIdle
  /\ OptIdle
  /\ snapshot = NoSnapshot
  /\ df \in Slices
  /\ columns = PriceColumns
  /\ periods = NoPeriods
  /\ series = NoSeries
  /\ BackIdle
  /\ RunIdle

SpecReads == InitReads /\ [][NextReads]_vars

\* ------------------------------------------------------------------------
\* Specification of the command-line run (src/main.py, run_backtest)

\* What fetch_databento_historical_data hands back: None, or a data frame,
\* which may have no row.
FetchedData == {None} \cup DataSets

\* Faulty variant of data_is_missing: an empty data frame passes.
data_is_missing_none_only(d) == d = None

\* "data is None or data.empty"
data_is_missing(d) == d = None \/ DataLen(d) = 0

\* The run after the step named step, at the place pc of run_backtest.
Step(run, step, pc) == [run EXCEPT !.log = Append(@, step), !.pc = pc]

\* The run as it starts: param_ranges stands for the literal of run_backtest.
NewRun(param_ranges) ==
  [pc |-> "fetch", param_ranges |-> param_ranges, data |-> None, results |-> <<>>,
   table |-> <<>>, best |-> <<>>, log |-> <<>>]

\* data = fetch_databento_historical_data(...)
FetchData(d) ==
  /\ main.pc = "fetch"
  /\ main' = Step([main EXCEPT !.data = d], "fetch", "check")
  /\ UNCHANGED <<params, engineVars, confVars, optVars, snapVars, indVars, backVars,
                 exception, fetch>>

\* "if data is None or data.empty: ... return"
CheckData ==
  /\ main.pc = "check"
  /\ main' = IF data_is_missing(main.data) THEN Step(main, "exit_no_data", "done")
             ELSE [main EXCEPT !.pc = "optimize"]
  /\ UNCHANGED <<params, engineVars, confVars, optVars, snapVars, indVars, backVars,
                 exception, fetch>>

\* optimizer = StrategyOptimizer(data, ...) and
\* optimization_results_df = optimizer.run_grid_search(param_ranges, ...):
\* one "evaluate" for each _evaluate_params call.
Optimize ==
  /\ main.pc = "optimize"
  /\ \E all_combinations \in {product(main.param_ranges.values)} :
     \E st \in {grid_loop(main.data, main.param_ranges.keys, all_combinations, 1,
                          [results |-> <<>>, strategy |-> NoEngine,
                           evaluated |-> <<>>, raised |-> FALSE])} :
       main' = [main EXCEPT
                  !.results = st.results,
                  !.table = IF st.raised THEN <<>> ELSE st.results,
                  !.log = @ \o <<"optimizer">>
                            \o [i \in 1..Len(st.evaluated) |-> "evaluate"]
                            \o (IF st.raised THEN <<"raised">>
                                ELSE <<"grid_search_returned">>),
                  !.pc = IF st.raised THEN "done" ELSE "display"]
  /\ UNCHANGED <<params, engineVars, confVars, optVars, snapVars, indVars, backVars,
                 exception, fetch>>

\* "if not optimization_results_df.empty:" with its else branch.
Display ==
  /\ main.pc = "display"
  /\ IF main.table # <<>>
     THEN \E best \in get_best_results(main.results, 5, "sharpe_ratio", FALSE) :
            main' = Step([main EXCEPT !.best = best], "top_results", "detail")
     ELSE main' = Step(main, "no_successful_backtests", "finish")
  /\ UNCHANGED <<params, engineVars, confVars, optVars, snapVars, indVars, backVars,
                 exception, fetch>>

\* "if not best_results.empty:": the run of the best row's parameters on the
\* data, then the Backtester and the plots when it gave events.  best_params
\* holds the row's values as pandas hands them back (floats where the row is
\* of a float dtype), on which process_bar can raise: the exception is an
\* outcome of the step.
DetailedBacktest ==
  /\ main.pc = "detail"
  /\ IF main.best # <<>>
     THEN \E run \in {feed(main.best[1].params, main.data, 0, NoEngine)} :
          \E outcome \in {"raised",
                          IF run.raised THEN "raised"
                          ELSE IF run.strategy.signals # <<>> THEN "plots"
                          ELSE "no_trade_signals"} :
            main' = [main EXCEPT !.log = @ \o <<"detailed_backtest", outcome>>,
                                 !.pc = IF outcome = "raised" THEN "done" ELSE "finish"]
     ELSE main' = [main EXCEPT !.pc = "finish"]
  /\ UNCHANGED <<params, engineVars, confVars, optVars, snapVars, indVars, backVars,
                 exception, fetch>>

\* print("Optimization and backtest complete.")
Finish ==
  /\ main.pc = "finish"
  /\ main' = Step(main, "complete", "done")
  /\ UNCHANGED <<params, engineVars, confVars, optVars, snapVars, indVars, backVars,
                 exception, fetch>>

NextMain ==
  \/ \E d \in FetchedData : FetchData(d)
  \/ CheckData
  \/ Optimize
  \/ Display
  \/ DetailedBacktest
  \/ Finish

InitMain ==
  /\ params = ParamsA
  /\ EngineInit
  /\ ConfIdle
  /\ OptIdle
  /\ snapshot = NoSnapshot
  /\ IndIdle
  /\ BackIdle
  /\ exception = NoError
  /\ main \in {NewRun(param_ranges) : param_ranges \in Grids}
  /\ fetch = [pc |-> "idle"]

SpecMain == InitMain /\ [][NextMain]_vars

\* ------------------------------------------------------------------------
\* Specification of one fetch_fmp_historical_data call (src/src/data_fetcher.py)

\* Largest retry_attempts handed to the function.
MaxRetries == 3

\* What one requests.get and the processing of its response come to: a data
\* frame with rows, a response without 'historical' data, a frame empty after
\* dropna, or the exception that leaves the try block.
Responses ==
  {"ok", "no_historical", "empty_after_processing", "http_429", "http_other",
   "connection_error", "timeout", "request_exception", "value_error", "exception"}

\* Faulty variant of Retryable: every HTTP error is tried again.
Retryable_any_http_error == {"http_429", "http_other", "connection_error", "timeout"}

\* The outcomes after which the loop goes on to its next attempt.
Retryable == {"http_429", "connection_error", "timeout"}

\* Faulty variant of range: one attempt more.
range_one_more(retry_attempts) == 0..retry_attempts

\* range(retry_attempts)
range(retry_attempts) == 0..(retry_attempts - 1)

\* The call as it starts: has_key tells whether FMP_API_KEY is set.
NewFetch(retry_attempts, initial_delay, has_key) ==
  [pc |-> "start", retry_attempts |-> retry_attempts, initial_delay |-> initial_delay,
   has_key |-> has_key, attempt |-> 0, requests |-> 0, outcomes |-> <<>>,
   delays |-> <<>>, returned |-> "nothing"]

\* load_dotenv() up to the loop: without a key the function returns None.
FetchStart ==
  /\ fetch.pc = "start"
  /\ fetch' = IF ~fetch.has_key THEN [fetch EXCEPT !.pc = "done", !.returned = "None"]
              ELSE [fetch EXCEPT !.pc = "for", !.attempt = 0]
  /\ UNCHANGED <<params, engineVars, confVars, optVars, snapVars, indVars, backVars,
                 exception, main>>

\* "for attempt in range(retry_attempts):" and, once the range is used up, the
\* return of None after the loop.
FetchFor ==
  /\ fetch.pc = "for"
  /\ fetch' = IF fetch.attempt \in range(fetch.retry_attempts)
              THEN [fetch EXCEPT !.pc = "try"]
              ELSE [fetch EXCEPT !.pc = "done", !.returned = "None"]
  /\ UNCHANGED <<params, engineVars, confVars, optVars, snapVars, indVars, backVars,
                 exception, main>>

\* The try block of one attempt with its except clauses: one request, then
\* the data frame or None is returned, or the function sleeps
\* initial_delay * 2 ** attempt and goes on to the next attempt.
FetchTry(outcome) ==
  /\ fetch.pc = "try"
  /\ fetch' =
       IF outcome \in Retryable
       THEN [fetch EXCEPT !.requests = @ + 1,
                          !.outcomes = Append(@, outcome),
                          !.delays = Append(@, fetch.initial_delay * 2 ^ fetch.attempt),
                          !.attempt = @ + 1,
                          !.pc = "for"]
       ELSE [fetch EXCEPT !.requests = @ + 1,
                          !.outcomes = Append(@, outcome),
                          !.returned = IF outcome = "ok" THEN "df" ELSE "None",
                          !.pc = "done"]
  /\ UNCHANGED <<params, engineVars, confVars, optVars, snapVars, indVars, backVars,
                 exception, main>>

NextFetch ==
  \/ FetchStart
  \/ FetchFor
  \/ \E outcome \in Responses : FetchTry(outcome)

InitFetch ==
  /\ params = ParamsA
  /\ EngineInit
  /\ ConfIdle
  /\ OptIdle
  /\ snapshot = NoSnapshot
  /\ IndIdle
  /\ BackIdle
  /\ exception = NoError
  /\ main = [pc |-> "idle"]
  /\ fetch \in {NewFetch(retry_attempts, initial_delay, has_key) :
                   retry_attempts \in 0..MaxRetries, initial_delay \in 0..2,
                   has_key \in BOOLEAN}

\* The function runs on: requests.get has a timeout and time.sleep of a
\* non-negative delay returns.
SpecFetch == InitFetch /\ [][NextFetch]_vars /\ WF_vars(NextFetch)

\* ------------------------------------------------------------------------
\* Properties of the signal engine (specification Spec)

IsEntry(ev) == ev.type \in {"entry_long", "entry_short"}

IsExit(ev) == ev.type \in {"exit_long", "exit_short"}

\* The events the step appends to the log.
NewEvents == SubSeq(signals', Len(signals) + 1, Len(signals'))

\* The step is a call that passed the lookback guard.
SufficientCall == locals'.sufficient

Alternating(log) ==
  /\ log # <<>> => IsEntry(log[1])
  /\ \A i \in 1..(Len(log) - 1) :
       /\ log[i].type = "entry_long" => log[i + 1].type = "exit_long"
       /\ log[i].type = "entry_short" => log[i + 1].type = "exit_short"
       /\ IsExit(log[i]) => IsEntry(log[i + 1])

\* C1: after any sequence of process_bar calls the event log strictly
\* alternates: it starts with an entry, an entry_long is followed by an
\* exit_long or by nothing, an entry_short by an exit_short or by nothing, no
\* two entries (and no two exits) are consecutive, and an exit is appended
\* only by a call that started with an open position.
C1_StrictAlternation ==
  [][/\ Alternating(signals')
     /\ \A i \in 1..Len(NewEvents) :
          IsExit(NewEvents[i]) => current_position # NoPosition]_vars

\* A log holding an entry, its exit and a further entry.
C1_Witness ==
  /\ Len(signals) >= 3
  /\ IsEntry(signals[1]) /\ IsExit(signals[2]) /\ IsEntry(signals[3])

\* C2 as claimed: a call appends at most one event, and a call that emits a
\* trailing-stop exit ends flat and emits no entry.
C2_OneEventPerCall ==
  [][/\ Len(signals') <= Len(signals) + 1
     /\ (\E i \in 1..Len(NewEvents) : IsExit(NewEvents[i]))
          => /\ current_position' = NoPosition
             /\ \A i \in 1..Len(NewEvents) : ~IsEntry(NewEvents[i])]_vars

\* The five entry conditions of a side, read from the locals of the call.
LongConditions(c) ==
  /\ c.consolidating /\ c.momentum_signal = "long" /\ c.trend = "uptrend"
  /\ c.stoch_confirmations.long /\ c.macd_confirmations.long

ShortConditions(c) ==
  /\ c.consolidating /\ c.momentum_signal = "short" /\ c.trend = "downtrend"
  /\ c.stoch_confirmations.short /\ c.macd_confirmations.short

\* C2, amended: a call appends at most two events, at most one exit and at
\* most one entry, the exit first and both with the call's timestamp; a call
\* that emits a trailing-stop exit still runs the entry check on the flat
\* engine, so it ends flat exactly when no entry condition holds on that bar.
C2_ExitThenEntry ==
  [][/\ Len(NewEvents) <= 2
     /\ \A i \in 1..Len(NewEvents) : IsExit(NewEvents[i]) => i = 1
     /\ Len(NewEvents) = 2
          => /\ IsEntry(NewEvents[2])
             /\ NewEvents[1].timestamp = NewEvents[2].timestamp
     /\ (NewEvents # <<>> /\ IsExit(NewEvents[1]))
          => /\ SufficientCall
             /\ (current_position' = NoPosition)
                  <=> ~(LongConditions(locals'.c) \/ ShortConditions(locals'.c))
             /\ (current_position' # NoPosition) <=> Len(NewEvents) = 2]_vars

\* A call that closed a position and opened one.
C2_Witness ==
  /\ locals.sufficient
  /\ locals.position_before # NoPosition
  /\ locals.position_at_entry_check = NoPosition
  /\ current_position # NoPosition
  /\ Len(signals) >= 3
  /\ IsExit(signals[Len(signals) - 1])
  /\ IsEntry(signals[Len(signals)])

\* The indicator periods of a parameter set.
Periods(p) ==
  {p.trend_ma_period, p.atr_period, p.roc_period,
   p.macd_fast_period, p.macd_slow_period, p.macd_signal_period}
  \cup {p.fast_stoch_k_period_1, p.fast_stoch_d_period_1, p.fast_stoch_smoothing_1}
  \cup {p.fast_stoch_k_period_2, p.fast_stoch_d_period_2, p.fast_stoch_smoothing_2}
  \cup {p.slow_stoch_k_period_1, p.slow_stoch_d_period_1, p.slow_stoch_smoothing_1}
  \cup {p.slow_stoch_k_period_2, p.slow_stoch_d_period_2, p.slow_stoch_smoothing_2}

\* The longest configured period plus 2.
RequiredLookback(p) ==
  2 + CHOOSE m \in Periods(p) : \A q \in Periods(p) : q <= m

\* C3: as long as the history fed bar by bar is shorter than the required
\* lookback, the log is empty and the engine is flat.
C3_NoEventBelowLookback ==
  len < RequiredLookback(params)
    => /\ signals = <<>>
       /\ current_position = NoPosition
       /\ entry_price = NoPrice
       /\ trailing_stop_price = NoPrice

\* The longest history below the lookback, long enough for the ATR average.
C3_Witness ==
  /\ len = RequiredLookback(params) - 1
  /\ len >= window_for_avg_atr
  /\ ~locals.sufficient
  /\ signals = <<>>

\* close - ATR * stopMultiple and close + ATR * stopMultiple of a call.
LongStopCandidate(p, c) ==
  c.current_close * p.atr_stop_multiple.den - c.current_atr * p.atr_stop_multiple.num

ShortStopCandidate(p, c) ==
  c.current_close * p.atr_stop_multiple.den + c.current_atr * p.atr_stop_multiple.num

\* C4: while a long position stays open the stop never decreases from one
\* call to the next and is max(previous stop, close - ATR * stopMultiple)
\* after the call; while a short position stays open it never increases and
\* is min(previous stop, close + ATR * stopMultiple).
C4_StopRatchet ==
  [][/\ (current_position = "long" /\ current_position' = "long" /\ signals' = signals)
          => /\ SufficientCall
             /\ trailing_stop_price'[1] >= trailing_stop_price[1]
             /\ \/ /\ trailing_stop_price'[1] = trailing_stop_price[1]
                   /\ trailing_stop_price[1] >= LongStopCandidate(params, locals'.c)
                \/ /\ trailing_stop_price'[1] = LongStopCandidate(params, locals'.c)
                   /\ trailing_stop_price[1] <= LongStopCandidate(params, locals'.c)
     /\ (current_position = "short" /\ current_position' = "short" /\ signals' = signals)
          => /\ SufficientCall
             /\ trailing_stop_price'[1] <= trailing_stop_price[1]
             /\ \/ /\ trailing_stop_price'[1] = trailing_stop_price[1]
                   /\ trailing_stop_price[1] <= ShortStopCandidate(params, locals'.c)
                \/ /\ trailing_stop_price'[1] = ShortStopCandidate(params, locals'.c)
                   /\ trailing_stop_price[1] >= ShortStopCandidate(params, locals'.c)]_vars

\* A long position kept by a call whose close - ATR * stopMultiple lies below
\* the stop: the stop is retained.
C4_Witness ==
  /\ locals.sufficient
  /\ locals.position_before = "long"
  /\ current_position = "long"
  /\ locals.position_at_entry_check = "long"
  /\ LongStopCandidate(params, locals.c) < locals.stop_before[1]
  /\ trailing_stop_price = locals.stop_before

\* The scenario of C5: a long position entered at price 100 with ATR = 2
\* under stopMultiple = 2.5, still open.
C5_Multiple == params.atr_stop_multiple = [num |-> 5, den |-> 2]

C5_Position ==
  /\ C5_Multiple
  /\ current_position = "long"
  /\ entry_price = Some(100 * 2)
  /\ locals.atr_at_entry = 2

\* The step is the call that opens that position.
C5_Entry ==
  /\ C5_Multiple
  /\ SufficientCall
  /\ NewEvents # <<>>
  /\ NewEvents[Len(NewEvents)].type = "entry_long"
  /\ locals'.c.current_close = 100
  /\ locals'.c.current_atr = 2

\* C5 as claimed: the position has initial stop 95, and any later bar with
\* low 94 fed while it is open gives an exit_long at exactly 95 with reason
\* trailing_stop, whatever the bar's close and ATR.
C5_ExitAtInitialStop ==
  [][/\ C5_Entry => trailing_stop_price' = Some(95 * 2)
     /\ (C5_Position /\ SufficientCall /\ locals'.c.current_low = 94)
          => /\ NewEvents # <<>>
             /\ NewEvents[1] = Event(Timestamp(len), "exit_long", 95 * 2, "trailing_stop")]_vars

\* C5, amended: the position has initial stop 95 and its stop stays at or
\* above 95; a later bar with low 94 fed while it is open gives an exit_long
\* with reason trailing_stop at the stop as updated by that bar,
\* max(previous stop, close - 2.5 * ATR), which is 95 exactly when the previous
\* stop is still 95 and the bar's close - 2.5 * ATR is at most 95.
C5_ExitAtRatchetedStop ==
  [][/\ C5_Entry => trailing_stop_price' = Some(95 * 2)
     /\ C5_Position => trailing_stop_price[1] >= 95 * 2
     /\ (C5_Position /\ SufficientCall /\ locals'.c.current_low = 94)
          => /\ NewEvents # <<>>
             /\ NewEvents[1].type = "exit_long"
             /\ NewEvents[1].reason = "trailing_stop"
             /\ NewEvents[1].timestamp = Timestamp(len)
             /\ NewEvents[1].price >= 95 * 2
             /\ \/ NewEvents[1].price = trailing_stop_price[1]
                \/ NewEvents[1].price = LongStopCandidate(params, locals'.c)
             /\ NewEvents[1].price >= trailing_stop_price[1]
             /\ NewEvents[1].price >= LongStopCandidate(params, locals'.c)
             /\ (NewEvents[1].price = 95 * 2)
                  <=> /\ trailing_stop_price[1] = 95 * 2
                      /\ LongStopCandidate(params, locals'.c) <= 95 * 2]_vars

\* The position entered at 100 with stop still 95 meets a bar with low 94 and
\* is closed above 95.
C5_Witness ==
  /\ C5_Multiple
  /\ locals.sufficient
  /\ locals.position_before = "long"
  /\ locals.stop_before = Some(95 * 2)
  /\ locals.c.current_low = 94
  /\ \E k \in 1..(Len(signals) - 1) :
       /\ signals[k].type = "entry_long"
       /\ signals[k].price = 100 * 2
       /\ signals[k + 1].type = "exit_long"
       /\ signals[k + 1].timestamp = Timestamp(len - 1)
       /\ signals[k + 1].price > 95 * 2

\* C6: in a call with sufficient history whose entry check runs on a flat
\* engine, entry_long is emitted iff the five long conditions hold,
\* entry_short iff the five short conditions hold, and otherwise the entry
\* check emits nothing and the engine stays flat.
C6_EntryIffConditions ==
  [][(SufficientCall /\ locals'.position_at_entry_check = NoPosition)
       => /\ (\E i \in 1..Len(NewEvents) : NewEvents[i].type = "entry_long")
               <=> LongConditions(locals'.c)
          /\ (\E i \in 1..Len(NewEvents) : NewEvents[i].type = "entry_short")
               <=> ShortConditions(locals'.c)
          /\ LongConditions(locals'.c) => current_position' = "long"
          /\ ShortConditions(locals'.c) => current_position' = "short"
          /\ ~(LongConditions(locals'.c) \/ ShortConditions(locals'.c))
               => /\ \A i \in 1..Len(NewEvents) : ~IsEntry(NewEvents[i])
                  /\ current_position' = NoPosition
                  /\ entry_price' = NoPrice
                  /\ trailing_stop_price' = NoPrice]_vars

\* A flat engine entered long on a bar meeting the five long conditions.
C6_Witness ==
  /\ locals.sufficient
  /\ locals.position_before = NoPosition
  /\ locals.position_at_entry_check = NoPosition
  /\ LongConditions(locals.c)
  /\ current_position = "long"
  /\ signals[Len(signals)].type = "entry_long"

\* C8: every event carries the timestamp of the last bar of the history of
\* the call that emitted it and a non-empty reason, and with histories growing
\* by one bar per call the log is ordered by non-decreasing timestamp.
C8_EventTimestamps ==
  [][/\ \A i \in 1..Len(NewEvents) :
          /\ NewEvents[i].timestamp = Timestamp(len)
          /\ NewEvents[i].reason # ""
     /\ \A i, j \in 1..Len(signals') :
          i < j => signals'[i].timestamp <= signals'[j].timestamp]_vars

\* A log with events of two calls, the last from the latest call.
C8_Witness ==
  /\ Len(signals) >= 2
  /\ signals[1].timestamp < signals[Len(signals)].timestamp
  /\ signals[Len(signals)].timestamp = Timestamp(len - 1)

\* ------------------------------------------------------------------------
\* Properties of the confirmation checks (specification SpecConf)

StochMissing(s) == \E x \in StochSeries : s[x].last = NaN \/ s[x].prev = NaN

MacdMissing(m) ==
  \/ m.macd_line = NaN \/ m.signal_line = NaN
  \/ m.histogram = NaN \/ m.histogram_prev = NaN

\* C9: if a stochastic %K/%D value at the current or previous bar is
\* missing, the stochastic check returns long = False and short = False; if
\* the MACD line, signal or histogram at the current bar or the histogram at
\* the previous bar is missing, so does the MACD check.
C9_MissingForcesFalse ==
  /\ (stoch_result.done /\ (df_len < 2 \/ StochMissing(stoch_series)))
       => ~stoch_result.long /\ ~stoch_result.short
  /\ (macd_result.done /\ (df_len < 2 \/ MacdMissing(macd_series)))
       => ~macd_result.long /\ ~macd_result.short

\* The conditions of the confirmation policy for a reading s.
ExpectedStochLong(p, s) ==
  /\ \A x \in StochSeries : FLt(s[x].last, p.stoch_oversold)
  /\ FLt(s.slow_k_60_10_10.prev, s.slow_d_60_10_10.prev)
  /\ FGt(s.slow_k_60_10_10.last, s.slow_d_60_10_10.last)
  /\ FLe(s.slow_k_60_10_10.last, p.stoch_oversold_60_10_10_alert)

ExpectedStochShort(p, s) ==
  /\ \A x \in StochSeries : FGt(s[x].last, p.stoch_overbought)
  /\ FGt(s.slow_k_60_10_10.prev, s.slow_d_60_10_10.prev)
  /\ FLt(s.slow_k_60_10_10.last, s.slow_d_60_10_10.last)
  /\ FGe(s.slow_k_60_10_10.last, p.stoch_overbought_60_10_10_alert)

\* C10: the stochastic long confirmation is true exactly when all eight
\* current %K/%D values are strictly below stoch_oversold, the slowest
\* oscillator has previous %K < previous %D and current %K > current %D, and
\* its current %K is at most the oversold alert level; the short confirmation
\* is the mirror.  (A frame without a previous bar confirms nothing.)
C10_StochasticConfirmation ==
  stoch_result.done
    => /\ stoch_result.long <=> (df_len >= 2 /\ ExpectedStochLong(params, stoch_series))
       /\ stoch_result.short <=> (df_len >= 2 /\ ExpectedStochShort(params, stoch_series))

\* A long confirmation with the slowest %K exactly on the alert level.
C10_Witness ==
  /\ stoch_result.done
  /\ stoch_result.long
  /\ stoch_series.slow_k_60_10_10.last = params.stoch_oversold_60_10_10_alert

\* C11: the MACD long confirmation is true exactly when the current macd line
\* and signal line are both below zero and the histogram is negative at the
\* previous bar and positive at the current bar; the short confirmation is
\* true exactly when both are above zero and the histogram is positive at the
\* previous bar and negative at the current bar.  (A frame without a previous
\* bar confirms nothing.)
C11_MacdConfirmation ==
  macd_result.done
    => /\ macd_result.long
            <=> /\ df_len >= 2
                /\ macd_series.macd_line # NaN /\ macd_series.macd_line < 0
                /\ macd_series.signal_line # NaN /\ macd_series.signal_line < 0
                /\ macd_series.histogram_prev # NaN /\ macd_series.histogram_prev < 0
                /\ macd_series.histogram # NaN /\ macd_series.histogram > 0
       /\ macd_result.short
            <=> /\ df_len >= 2
                /\ macd_series.macd_line # NaN /\ macd_series.macd_line > 0
                /\ macd_series.signal_line # NaN /\ macd_series.signal_line > 0
                /\ macd_series.histogram_prev # NaN /\ macd_series.histogram_prev > 0
                /\ macd_series.histogram # NaN /\ macd_series.histogram < 0

\* A short confirmation: both lines above zero, the histogram flipped from
\* positive to negative.
C11_Witness ==
  /\ macd_result.done
  /\ macd_result.short
  /\ macd_series.macd_line > 0 /\ macd_series.signal_line > 0
  /\ macd_series.histogram_prev > 0
  /\ macd_series.histogram # NaN /\ macd_series.histogram < 0

\* ------------------------------------------------------------------------
\* Properties of the optimizer (specification SpecOpt)

\* The number of combinations of a param_ranges: the product of the lengths
\* of its candidate lists.
RECURSIVE LengthProduct(_)
LengthProduct(lists) ==
  IF lists = <<>> THEN 1 ELSE Len(Head(lists)) * LengthProduct(Tail(lists))

GridSize(param_ranges) == LengthProduct(param_ranges.values)

\* The latest call of a public method was run_grid_search and it returned.
SearchReturned == returned.call = "run_grid_search" /\ ~returned.raised

\* The rows the latest run_grid_search call added to the result list.
CallRows == SubSeq(results, Len(search.results_before) + 1, Len(results))

\* What a run of combination p on the data d gives, from a new engine and a
\* new backtester: whether it raises, its event list, ledger, equity series
\* and metrics.
FreshRun(d, p) ==
  LET run == feed(p, d, 0, NoEngine)
      ledger == run_backtest(run.strategy.signals, backtester_commission_per_trade)
      equity == EquityCurve(ledger, backtester_initial_capital)
  IN [raised |-> run.raised, signals |-> run.strategy.signals, ledger |-> ledger,
      equity |-> equity, metrics |-> calculate_metrics(ledger, equity)]

\* The run raises; it generates no trades; its ledger or equity series is
\* insufficient.
RunRaises(d, p) == FreshRun(d, p).raised

NoTradesIn(run) == ~run.raised /\ run.signals = <<>>

InsufficientLedgerIn(run) ==
  ~run.raised /\ (run.ledger = <<>> \/ Len(run.equity) < 2)

\* The value of metric m of a run: NaN when the metrics have no m.
MetricIn(run, m) == IF m \in DOMAIN run.metrics THEN run.metrics[m] ELSE NaN

\* The run produced a non-empty ledger and defined Sharpe ratio and total
\* return.
SurvivesIn(run) ==
  /\ ~run.raised
  /\ ~NoTradesIn(run)
  /\ ~InsufficientLedgerIn(run)
  /\ MetricIn(run, "sharpe_ratio") # NaN
  /\ MetricIn(run, "total_return") # NaN

Survives(d, p) == \E run \in {FreshRun(d, p)} : SurvivesIn(run)

\* The combinations of the latest call that survive, by position.
Survivors == {i \in 1..Len(evaluated) : Survives(data, evaluated[i].params)}

\* C12 as claimed: after any sequence of run_grid_search calls, the table a
\* call returns has exactly one row per combination of that call that
\* produced a non-empty ledger with defined metrics, and at most as many rows
\* as the product of that call's candidate-list lengths.
C12_OneRowPerSurvivor ==
  SearchReturned
    => /\ Len(returned.table) <= GridSize(search.param_ranges)
       /\ Len(returned.table) = Cardinality(Survivors)
       /\ \A i \in Survivors :
            \E k \in 1..Len(returned.table) :
              returned.table[k].params = evaluated[i].params
       /\ \A k \in 1..Len(returned.table) :
            \E i \in Survivors : returned.table[k].params = evaluated[i].params

\* The stride of the key at position k of a param_ranges: the number of
\* combinations in which the keys after it vary.
Stride(param_ranges, k) ==
  LengthProduct(SubSeq(param_ranges.values, k + 1, Len(param_ranges.values)))

\* The params of the rows a sequence of evaluations leaves, in order.
RECURSIVE SurvivingParams(_)
SurvivingParams(evals) ==
  IF evals = <<>> THEN <<>>
  ELSE (IF Head(evals).row THEN <<Head(evals).params>> ELSE <<>>)
       \o SurvivingParams(Tail(evals))

\* C13: run_grid_search evaluates every element of the Cartesian product of
\* the candidate lists exactly once, in lexicographic order over the key
\* order with the last key varying fastest (the i-th evaluation takes, for
\* the key at position k, the candidate at index ((i - 1) div stride of k)
\* mod the length of its list), and the rows of the surviving combinations
\* are appended to the result list in that same order.
C13_LexicographicOrder ==
  SearchReturned
    => /\ Len(evaluated) = GridSize(search.param_ranges)
       /\ \A i \in 1..Len(evaluated) :
            /\ DOMAIN evaluated[i].params
                 = {search.param_ranges.keys[k] : k \in 1..Len(search.param_ranges.keys)}
            /\ \A k \in 1..Len(search.param_ranges.keys) :
                 evaluated[i].params[search.param_ranges.keys[k]]
                   = search.param_ranges.values[k]
                       [(((i - 1) \div Stride(search.param_ranges, k))
                           % Len(search.param_ranges.values[k])) + 1]
       /\ [k \in 1..Len(CallRows) |-> CallRows[k].params] = SurvivingParams(evaluated)

\* A search over three varied keys (eight combinations) that left two rows.
C13_Witness ==
  /\ SearchReturned
  /\ Len(evaluated) = 8
  /\ Len(CallRows) = 2
  /\ CallRows[1].params # CallRows[2].params

\* C14 as claimed: for every metric name m passed as optimize_metric,
\* run_grid_search adds no row for a combination whose run generated no
\* trades, whose ledger is empty or whose equity series has fewer than 2
\* points, or whose metric m is undefined for that run.
C14_NoRowForUndefinedMetric ==
  SearchReturned
    => \A i \in 1..Len(evaluated) :
         \A run \in {FreshRun(data, evaluated[i].params)} :
           (\/ NoTradesIn(run)
            \/ InsufficientLedgerIn(run)
            \/ MetricIn(run, search.optimize_metric) = NaN)
             => /\ ~evaluated[i].row
                /\ \A k \in 1..Len(CallRows) : CallRows[k].params # evaluated[i].params

\* The step is a run_grid_search call.
GridSearchStep == calls' = calls + 1

\* C15: an exception raised while one combination is evaluated produces no
\* row for that combination and does not abort the grid search: the call
\* returns, every combination of the grid has been evaluated, the later ones
\* included, and the rows collected before are unchanged.
C15_FailureIsNoRow ==
  [][GridSearchStep
       => /\ ~returned'.raised
          /\ returned'.call = "run_grid_search"
          /\ Len(evaluated') = GridSize(search'.param_ranges)
          /\ \A i \in 1..Len(evaluated') :
               RunRaises(data, evaluated'[i].params)
                 => /\ ~evaluated'[i].row
                    /\ \A j \in (i + 1)..Len(evaluated') :
                         evaluated'[j].row <=> Survives(data, evaluated'[j].params)
          /\ Len(results') = Len(results)
                + Cardinality({i \in 1..Len(evaluated') : evaluated'[i].row})
          /\ SubSeq(results', 1, Len(results)) = results]_vars

\* A search in which a combination that left a row is followed by one whose
\* evaluation raises, and that one by a combination that left a row.
C15_Witness ==
  /\ SearchReturned
  /\ \E i, j, k \in 1..Len(evaluated) :
       /\ i < j /\ j < k
       /\ evaluated[i].row
       /\ RunRaises(data, evaluated[j].params)
       /\ evaluated[k].row
  /\ Len(CallRows) = 2

\* The row of combination p on the data d, from a new engine and a new
\* backtester.
FreshRow(d, p) == result_entry(p, FreshRun(d, p).metrics)

\* C16: the row of a combination depends only on the bar data, the capital,
\* the commission and the combination: every row of the result list is the
\* row a run of its combination from a new engine gives, and a combination
\* leaves a row exactly when that run survives, whichever combinations were
\* evaluated before it.
C16_RowDependsOnCombination ==
  /\ \A k \in 1..Len(results) : results[k] = FreshRow(data, results[k].params)
  /\ \A i \in 1..Len(evaluated) :
       evaluated[i].row <=> Survives(data, evaluated[i].params)

\* The same combination has left the same row in two searches, in the later
\* one right after the evaluation of another combination that left a row.
C16_Witness ==
  /\ SearchReturned
  /\ \E a \in 1..Len(search.results_before), b \in 1..Len(CallRows) :
       /\ CallRows[b] = results[a]
       /\ \E i \in 2..Len(evaluated) :
            /\ evaluated[i].row
            /\ evaluated[i].params = CallRows[b].params
            /\ evaluated[i - 1].row
            /\ evaluated[i - 1].params # evaluated[i].params

\* C18 as claimed: a grid search in which no combination survives returns an
\* empty table without raising, and get_best_results on an optimizer with an
\* empty result list returns an empty table without raising.
C18_EmptyIsNotAnError ==
  /\ (returned.call = "run_grid_search" /\ \A i \in 1..Len(evaluated) : ~evaluated[i].row)
       => ~returned.raised /\ returned.table = <<>>
  /\ (returned.call = "get_best_results" /\ results = <<>>)
       => ~returned.raised /\ returned.table = <<>>

\* ------------------------------------------------------------------------
\* Properties of get_best_results (specification SpecBest)

\* The latest call of a public method was get_best_results.
BestReturned == returned.call = "get_best_results" /\ ~returned.raised

\* The value of sort_by in a row of the result list; NaN is undefined.
SortValue(row) == Cell(row, returned.args.sort_by)

\* Row a does not come after row b in the requested order: a is defined and
\* b is not, or both are undefined, or both are defined and a's value is not
\* on the worse side of b's.
NotAfter(a, b) ==
  IF SortValue(b) = NaN THEN TRUE
  ELSE IF SortValue(a) = NaN THEN FALSE
  ELSE IF returned.args.ascending THEN SortValue(a) <= SortValue(b)
  ELSE SortValue(a) >= SortValue(b)

\* The positions in the result list of the rows of the returned table.
Origin(k) ==
  CHOOSE i \in 1..Len(results) : results[i].params = returned.table[k].params

C19_SignalsSnapshot ==
  [][/\ (snapshot'.op = "get_signals" /\ len' = len)
          => /\ snapshot'.frame.rows = signals
             /\ UNCHANGED <<current_position, entry_price, trailing_stop_price, signals>>
     /\ len' # len => snapshot' = snapshot
     /\ (snapshot'.op = "modify" /\ len' = len)
          => UNCHANGED <<current_position, entry_price, trailing_stop_price, signals>>]_vars

\* A frame taken when the log held one event, overwritten by the caller,
\* and a log that has since grown and kept its timestamps.
C19_Witness ==
  /\ snapshot.op = "modify"
  /\ Len(snapshot.frame.rows) = 1
  /\ Len(signals) >= 2
  /\ snapshot.frame.rows[1].timestamp = 0
  /\ signals[1].timestamp # 0
  /\ signals[1].type = snapshot.frame.rows[1].type

\* ------------------------------------------------------------------------
\* Properties of the indicator functions (specification SpecInd)

\* The number of bars a position of series i of the latest call needs:
\* ATR and the MACD lines are seeded by the first bar; ROC compares with the
\* close period bars earlier; SMA averages period closes; raw %K spans
\* k_period bars, smoothed %K smoothing_period values of raw %K, and %D
\* d_period values of smoothed %K.
RequiredHistory(i) ==
  CASE series.fn = "calculate_atr" -> 1
    [] series.fn = "calculate_roc" -> periods[1] + 1
    [] series.fn = "calculate_sma" -> periods[1]
    [] series.fn = "calculate_stochastic" ->
         IF i = 1 THEN periods[1] + periods[3] - 1
         ELSE periods[1] + periods[3] + periods[2] - 2
    [] series.fn = "calculate_macd" -> 1

\* C20: every series an indicator function returns has one position per bar
\* of the data frame, and every position with fewer bars than the required
\* history is nan (so not the number 0); with smoothing_period = 1, where
\* smoothed %K is raw %K, that is nan at the first k_period - 1 positions.
C20_UndefinedNotZero ==
  series.fn # "none" =>
    \A i \in 1..Len(series.out) :
      /\ Len(series.out[i]) = Len(df)
      /\ \A t \in 1..Len(df) : t < RequiredHistory(i) => series.out[i][t] = QNaN

\* The bars at positions lo..hi of the data frame are one flat bar repeated.
FlatRange(lo, hi) ==
  \A a, b \in lo..hi : df[a] = df[b] /\ df[a].High = df[a].Low /\ df[a].Close = df[a].Low

\* C21: on bars with constant high = low = close, calculate_stochastic
\* reports %K as the number 0 wherever it reports a value, that is at every
\* position from the one that has the required history on, and as neither
\* nan nor an infinity there; and where smoothed %K is raw %K
\* (smoothing_period = 1), a flat window of k_period bars gives 0.
C21_FlatRangeIsZero ==
  (series.fn = "calculate_stochastic" /\ series.raised = "None") =>
    /\ FlatRange(1, Len(df)) =>
         \A t \in 1..Len(df) :
           /\ series.out[1][t] \in {QNaN, Q(0, 1)}
           /\ t >= RequiredHistory(1) => series.out[1][t] = Q(0, 1)
    /\ periods[3] = 1 =>
         \A t \in periods[1]..Len(df) :
           FlatRange(t - periods[1] + 1, t) => series.out[1][t] = Q(0, 1)

\* Three equal flat bars, %K over two bars without smoothing: the last
\* position has a full flat window.
C21_Witness ==
  /\ series.fn = "calculate_stochastic"
  /\ series.raised = "None"
  /\ Len(df) = 3
  /\ FlatRange(1, 3)
  /\ periods[1] = 2
  /\ periods[3] = 1
  /\ series.out[1][3] = Q(0, 1)

\* C22: calculate_atr and calculate_stochastic on a frame without High, Low
\* or Close, and calculate_roc, calculate_sma and calculate_macd on a frame
\* without Close, raise ValueError and return no series.
C22_MissingColumnRaises ==
  /\ series.fn \in {"calculate_atr", "calculate_stochastic"}
       => (~(PriceColumns \subseteq columns)
             => series.raised = "ValueError" /\ series.out = <<>>)
  /\ series.fn \in {"calculate_roc", "calculate_sma", "calculate_macd"}
       => ("Close" \notin columns
             => series.raised = "ValueError" /\ series.out = <<>>)

\* calculate_atr has raised on a frame of bars that has Close but not High.
C22_Witness ==
  /\ series.fn = "calculate_atr"
  /\ df # <<>>
  /\ "Close" \in columns
  /\ "High" \notin columns
  /\ series.raised = "ValueError"

\* ------------------------------------------------------------------------
\* Properties of the backtester (specification SpecBack)

\* The timestamps of the equity series increase strictly.
EquityIndexIncreases ==
  \A k \in 1..(Len(backtest.equity_index) - 1) :
    backtest.equity_index[k] < backtest.equity_index[k + 1]

EquityDelta ==
  backtest.equity_curve[Len(backtest.equity_curve)] - backtest.equity_curve[1]

\* C23 as stated: the sum of the ledger rows' P&L before commission is the
\* last equity value minus the first, whatever the commission, and the
\* timestamps of the equity series increase strictly.
C23_GrossPnlIsEquityDelta ==
  backtest.done =>
    /\ SumSeq([k \in 1..Len(backtest.trade_log) |-> backtest.trade_log[k].gross])
         = EquityDelta
    /\ EquityIndexIncreases

\* C23 amended: the sum of the ledger rows' P&L after commission is the last
\* equity value minus the first, so the sum before commission exceeds it by
\* twice the commission per ledger row; the timestamps of the equity series
\* increase strictly.
C23_NetPnlIsEquityDelta ==
  backtest.done =>
    /\ SumSeq([k \in 1..Len(backtest.trade_log) |-> backtest.trade_log[k].pnl])
         = EquityDelta
    /\ SumSeq([k \in 1..Len(backtest.trade_log) |-> backtest.trade_log[k].gross])
         = EquityDelta + 2 * backtest.commission * Len(backtest.trade_log)
    /\ EquityIndexIncreases

\* Two closed trades under a commission, the second entered on the bar of
\* the first one's exit.
C23_Witness ==
  /\ backtest.done
  /\ backtest.commission > 0
  /\ Len(backtest.trade_log) = 2
  /\ backtest.trade_log[2].entry_time = backtest.trade_log[1].exit_time

\* C24: one ledger row per entry that is followed by its exit, in order, and
\* none for a trailing entry; a row's P&L is exit - entry for a long and
\* entry - exit for a short, less the commission at entry and at exit; the
\* equity series has one point per row after its first point, which is the
\* initial capital.
C24_LedgerPairsEvents ==
  backtest.done =>
    /\ Len(backtest.trade_log) = Len(backtest.signals) \div 2
    /\ \A k \in 1..Len(backtest.trade_log) :
         LET row == backtest.trade_log[k]
             entry == backtest.signals[2 * k - 1]
             exit == backtest.signals[2 * k]
         IN /\ row.entry_time = entry.timestamp
            /\ row.exit_time = exit.timestamp
            /\ row.pnl = (IF entry.type = "entry_long" THEN exit.price - entry.price
                          ELSE entry.price - exit.price) - 2 * backtest.commission
    /\ Len(backtest.equity_curve) = Len(backtest.trade_log) + 1
    /\ backtest.equity_curve[1] = backtester_initial_capital

\* A short trade closed at a gain under a commission, then an entry that is
\* still open.
C24_Witness ==
  /\ backtest.done
  /\ backtest.commission > 0
  /\ Len(backtest.signals) = 3
  /\ backtest.signals[1].type = "entry_short"
  /\ backtest.signals[1].price > backtest.signals[2].price
  /\ Len(backtest.trade_log) = 1
  /\ backtest.trade_log[1].pnl = 3 - 2 * backtest.commission

\* ------------------------------------------------------------------------
\* Properties of the exit and entry blocks of process_bar

\* The stop of the open position as the call's exit block updates it.
UpdatedStop ==
  IF current_position = "long"
  THEN Max2(trailing_stop_price[1], LongStopCandidate(params, locals'.c))
  ELSE Min2(trailing_stop_price[1], ShortStopCandidate(params, locals'.c))

\* The bar of the call reaches the updated stop.
StopBreached ==
  IF current_position = "long"
  THEN Scaled(params, locals'.c.current_low) <= UpdatedStop
  ELSE Scaled(params, locals'.c.current_high) >= UpdatedStop

\* The call emits the exit event of the position that was open.
ExitEmitted ==
  /\ NewEvents # <<>>
  /\ NewEvents[1].type = (IF current_position = "long" THEN "exit_long" ELSE "exit_short")

\* The exit rule of a call with sufficient history and an open position: an
\* exit is emitted exactly when the bar reaches the updated stop, at the
\* updated stop; otherwise nothing is emitted and the position is kept with
\* the updated stop.
ExitRule ==
  /\ ExitEmitted <=> StopBreached
  /\ ExitEmitted
       => NewEvents[1] = Event(Timestamp(len),
                               IF current_position = "long" THEN "exit_long" ELSE "exit_short",
                               UpdatedStop, "trailing_stop")
  /\ ~ExitEmitted
       => /\ NewEvents = <<>>
          /\ current_position' = current_position
          /\ entry_price' = entry_price
          /\ trailing_stop_price' = Some(UpdatedStop)

\* C25 as claimed: in a call with sufficient history while a position is
\* open, the stop is first updated (max for a long, min for a short), an exit
\* is emitted iff the bar's low (high for a short) reaches the updated stop,
\* at the updated stop, and the call leaves current_position, entry_price
\* and trailing_stop_price at None.
C25_ExitLeavesFieldsNone ==
  [][(SufficientCall /\ current_position # NoPosition)
       => /\ ExitRule
          /\ ExitEmitted
               => /\ current_position' = NoPosition
                  /\ entry_price' = NoPrice
                  /\ trailing_stop_price' = NoPrice]_vars

\* C25, amended: as above, but the exit clears current_position, entry_price
\* and trailing_stop_price to None before the entry check of the same call;
\* they are None when the call returns unless that entry check opens a new
\* position on the same bar, which adds one entry event after the exit.
C25_ExitClearsBeforeEntryCheck ==
  [][(SufficientCall /\ current_position # NoPosition)
       => /\ ExitRule
          /\ ExitEmitted
               => /\ locals'.position_at_entry_check = NoPosition
                  /\ locals'.entry_price_at_entry_check = NoPrice
                  /\ locals'.stop_at_entry_check = NoPrice
                  /\ Len(NewEvents) <= 2
                  /\ Len(NewEvents) = 1
                       => /\ current_position' = NoPosition
                          /\ entry_price' = NoPrice
                          /\ trailing_stop_price' = NoPrice
                  /\ Len(NewEvents) = 2
                       => /\ IsEntry(NewEvents[2])
                          /\ current_position' # NoPosition]_vars

\* A long position whose bar's low lies above the previous stop and at or
\* below the updated one: the update alone brings the exit, at the updated
\* stop, and the call returns flat.
C25_Witness ==
  /\ locals.sufficient
  /\ locals.position_before = "long"
  /\ Scaled(params, locals.c.current_low) > locals.stop_before[1]
  /\ Scaled(params, locals.c.current_low) <= LongStopCandidate(params, locals.c)
  /\ signals # <<>>
  /\ signals[Len(signals)] =
       Event(Timestamp(len - 1), "exit_long", LongStopCandidate(params, locals.c),
             "trailing_stop")
  /\ current_position = NoPosition
  /\ entry_price = NoPrice
  /\ trailing_stop_price = NoPrice

\* The call ends with an entry event of the given type.
EntryEmitted(type) ==
  /\ NewEvents # <<>>
  /\ NewEvents[Len(NewEvents)].type = type

\* C26: on entry the event's price and the recorded entry_price both equal
\* the bar's close, and the trailing stop is close - ATR * stopMultiple for a
\* long and close + ATR * stopMultiple for a short, with the ATR of the
\* entry bar.
C26_EntryAtCloseWithInitialStop ==
  [][/\ EntryEmitted("entry_long")
          => /\ NewEvents[Len(NewEvents)].price = Scaled(params, locals'.c.current_close)
             /\ NewEvents[Len(NewEvents)].timestamp = Timestamp(len)
             /\ current_position' = "long"
             /\ entry_price' = Some(Scaled(params, locals'.c.current_close))
             /\ trailing_stop_price' = Some(LongStopCandidate(params, locals'.c))
     /\ EntryEmitted("entry_short")
          => /\ NewEvents[Len(NewEvents)].price = Scaled(params, locals'.c.current_close)
             /\ NewEvents[Len(NewEvents)].timestamp = Timestamp(len)
             /\ current_position' = "short"
             /\ entry_price' = Some(Scaled(params, locals'.c.current_close))
             /\ trailing_stop_price' = Some(ShortStopCandidate(params, locals'.c))]_vars

\* A short entered at close 94 on a bar whose ATR is 2: the stop lies
\* 2 * stopMultiple above the close.
C26_Witness ==
  /\ locals.sufficient
  /\ locals.position_at_entry_check = NoPosition
  /\ current_position = "short"
  /\ locals.c.current_close = 94
  /\ locals.c.current_atr = 2
  /\ signals # <<>>
  /\ signals[Len(signals)] =
       Event(Timestamp(len - 1), "entry_short", Scaled(params, 94),
             "consolidation_breakout_short_confirmed")
  /\ entry_price = Some(Scaled(params, 94))
  /\ trailing_stop_price = Some(Scaled(params, 94) + StopDistance(params, 2))

\* ------------------------------------------------------------------------
\* Properties of the engine called on its own

\* C27: a process_bar call whose slice is shorter than the required lookback
\* leaves current_position, entry_price, trailing_stop_price and the event
\* log unchanged, whatever the engine's state, and raises no error.
C27_ShortHistoryIsNoOp ==
  [][(PeriodKeys \subseteq DOMAIN params /\ len' < max_lookback(params))
       => /\ current_position' = current_position
          /\ entry_price' = entry_price
          /\ trailing_stop_price' = trailing_stop_price
          /\ signals' = signals
          /\ exception' = NoError]_vars

\* A call with too short a slice made while a position is open: the position,
\* its entry price and stop and the log are those the opening call left.
C27_Witness ==
  /\ PeriodKeys \subseteq DOMAIN params
  /\ len < max_lookback(params)
  /\ ~locals.sufficient
  /\ locals.position_before = "long"
  /\ current_position = "long"
  /\ entry_price = Some(signals[Len(signals)].price)
  /\ trailing_stop_price = locals.stop_before
  /\ signals[Len(signals)].type = "entry_long"
  /\ signals[Len(signals)].timestamp > Timestamp(len - 1)
  /\ exception = NoError

\* C28: an engine built from a parameter set that lacks a required key has
\* failed at construction with an input error; it does not exist to fail
\* later in process_bar.
C28_MissingKeyFailsAtConstruction ==
  ~(RequiredKeys \subseteq DOMAIN params)
    => /\ exception.by = "__init__"
       /\ exception.error # "None"

\* ------------------------------------------------------------------------
\* Properties of the command-line run

\* The positions of a step in the run's log.
Positions(step) == {i \in 1..Len(main.log) : main.log[i] = step}

\* C29: data retrieval is invoked exactly once, before the optimizer is built
\* and before any combination is evaluated; on no data or empty data no
\* optimizer is built and no combination is evaluated; the detailed backtest
\* of the best parameters runs only after the grid search has returned a
\* non-empty table, and a grid search that returned an empty table is
\* followed by the report of no successful backtests.
C29_RunOrder ==
  /\ Cardinality(Positions("fetch")) = (IF main.pc = "fetch" THEN 0 ELSE 1)
  /\ \A i \in Positions("optimizer") \cup Positions("evaluate") :
       \E j \in Positions("fetch") : j < i
  /\ (main.pc # "fetch" /\ (main.data = None \/ DataLen(main.data) = 0))
       => /\ Positions("optimizer") = {}
          /\ Positions("evaluate") = {}
          /\ main.pc \in {"check", "done"}
  /\ \A i \in Positions("detailed_backtest") :
       /\ \E j \in Positions("grid_search_returned") : j < i
       /\ main.table # <<>>
  /\ (Positions("grid_search_returned") # {} /\ main.table = <<>>
        /\ main.pc \in {"finish", "done"})
       => /\ Positions("no_successful_backtests") # {}
          /\ Positions("detailed_backtest") = {}
  /\ Positions("no_successful_backtests") # {}
       => /\ main.table = <<>>
          /\ Positions("grid_search_returned") # {}

\* A finished run that fetched data, evaluated two combinations or more, got
\* a non-empty table and ran the detailed backtest up to its plots.
C29_Witness ==
  /\ main.pc = "done"
  /\ main.log[1] = "fetch"
  /\ Cardinality(Positions("evaluate")) >= 2
  /\ main.table # <<>>
  /\ Positions("detailed_backtest") # {}
  /\ Positions("plots") # {}
  /\ main.log[Len(main.log)] = "complete"

\* ------------------------------------------------------------------------
\* Properties of the FMP fetcher

\* C30: a fetch_fmp_historical_data call issues at most retry_attempts
\* requests and always terminates; once retry_attempts attempts have failed
\* with retryable errors it has returned None.
C30_BoundedRetries ==
  /\ [](fetch.requests <= fetch.retry_attempts)
  /\ <>(fetch.pc = "done")
  /\ []((/\ Len(fetch.outcomes) = fetch.retry_attempts
         /\ \A i \in 1..Len(fetch.outcomes) : fetch.outcomes[i] \in Retryable
         /\ fetch.pc \notin {"start", "for"})
          => /\ fetch.pc = "done"
             /\ fetch.returned = "None")

\* Three attempts that failed with a rate limit, a connection error and a
\* timeout, after sleeps of 1, 2 and 4 seconds: None is returned.
C30_Witness ==
  /\ fetch.pc = "done"
  /\ fetch.retry_attempts = 3
  /\ fetch.requests = 3
  /\ fetch.outcomes = <<"http_429", "connection_error", "timeout">>
  /\ fetch.delays = <<1, 2, 4>>
  /\ fetch.returned = "None"

\* C31: a further attempt is made only after an HTTP 429, a connection error
\* or a timeout, and after a sleep of initial_delay * 2^attempt; every other
\* outcome of an attempt ends the call at once, with a data frame on success
\* and None otherwise, and no request follows.
C31_RetryOnlyOnTransientErrors ==
  [][/\ fetch.pc = "try"
          => /\ fetch'.requests = fetch.requests + 1
             /\ fetch'.outcomes # <<>>
             /\ (fetch'.pc = "for")
                  <=> fetch'.outcomes[Len(fetch'.outcomes)]
                        \in {"http_429", "connection_error", "timeout"}
             /\ fetch'.pc = "for"
                  => /\ fetch'.attempt = fetch.attempt + 1
                     /\ fetch'.delays =
                          Append(fetch.delays, fetch.initial_delay * 2 ^ fetch.attempt)
                     /\ fetch'.returned = "nothing"
             /\ fetch'.pc # "for"
                  => /\ fetch'.pc = "done"
                     /\ fetch'.delays = fetch.delays
                     /\ fetch'.returned =
                          (IF fetch'.outcomes[Len(fetch'.outcomes)] = "ok" THEN "df"
                           ELSE "None")
     /\ (fetch.pc = "for" /\ fetch'.pc = "try")
          => /\ fetch'.requests = fetch.requests
             /\ Len(fetch.delays) = Len(fetch.outcomes)
             /\ \A i \in 1..Len(fetch.outcomes) :
                  fetch.outcomes[i] \in {"http_429", "connection_error", "timeout"}
     /\ fetch.pc = "done" => fetch' = fetch]_vars

\* A timeout, a sleep of initial_delay seconds and a second attempt that ends
\* with another HTTP error: None is returned with an attempt left.
C31_Witness ==
  /\ fetch.pc = "done"
  /\ fetch.retry_attempts = 3
  /\ fetch.initial_delay = 2
  /\ fetch.outcomes = <<"timeout", "http_other">>
  /\ fetch.requests = 2
  /\ fetch.delays = <<2>>
  /\ fetch.returned = "None"

\* ------------------------------------------------------------------------
\* Consistency of the engine's fields and its log

\* C32: after every process_bar call current_position is None iff
\* entry_price is None iff trailing_stop_price is None; current_position is
\* 'long' (resp. 'short') exactly when the last event of the log is an
\* entry_long (resp. entry_short), and None exactly when the log is empty or
\* ends with an exit.
C32_FieldsAndLogAgree ==
  /\ (current_position = NoPosition) <=> (entry_price = NoPrice)
  /\ (current_position = NoPosition) <=> (trailing_stop_price = NoPrice)
  /\ (current_position = "long")
       <=> (signals # <<>> /\ signals[Len(signals)].type = "entry_long")
  /\ (current_position = "short")
       <=> (signals # <<>> /\ signals[Len(signals)].type = "entry_short")
  /\ (current_position = NoPosition)
       <=> (signals = <<>> \/ IsExit(signals[Len(signals)]))

\* ------------------------------------------------------------------------
\* Properties of the lookback guard

\* C33: once process_bar has passed the lookback guard, every indicator value
\* it reads at the current and the previous bar was computed over a full
\* window of real bars, for every parameter set: no warm-up position enters
\* it, so the same bars give the same values when a further bar precedes
\* them.
C33_ReadsUseFullWindows ==
  (series.fn = "process_bar" /\ series.out # <<>>)
    => \A b \in IndBars : indicator_reads(<<b>> \o df, params) = series.out[1]

\* ------------------------------------------------------------------------
\* Properties of the entry conditions

\* The entry check with the short condition evaluated before the long one.
entry_logic_short_first(p, e, c) ==
  IF e.current_position = NoPosition THEN
    IF short_entry_condition(c) THEN EnterShort(p, e, c)
    ELSE IF long_entry_condition(c) THEN EnterLong(p, e, c)
    ELSE e
  ELSE e

\* C34: in every call past the lookback guard the long and the short entry
\* condition never both hold: momentum is one of long/short/none, trend one
\* of uptrend/downtrend/sideways, and the stochastic and the MACD
\* confirmation never hold for both sides; so the call ends as it would with
\* the short condition evaluated first.
C34_EntryConditionsExclusive ==
  [][SufficientCall =>
       \E c \in {locals'.c} :
         /\ c.momentum_signal \in {"long", "short", "none"}
         /\ c.trend \in {"uptrend", "downtrend", "sideways"}
         /\ ~(c.stoch_confirmations.long /\ c.stoch_confirmations.short)
         /\ ~(c.macd_confirmations.long /\ c.macd_confirmations.short)
         /\ ~(long_entry_condition(c) /\ short_entry_condition(c))
         /\ Engine(current_position', entry_price', trailing_stop_price', signals')
              = entry_logic_short_first(
                  params,
                  exit_logic(params,
                             Engine(current_position, entry_price, trailing_stop_price,
                                    signals), c),
                  c)]_vars

\* A short entry emitted, after the long condition was found false, under
\* levels that make the oscillators oversold and overbought at once.
C34_Witness ==
  /\ locals.sufficient
  /\ locals.position_at_entry_check = NoPosition
  /\ params.stoch_oversold > params.stoch_overbought
  /\ short_entry_condition(locals.c)
  /\ current_position = "short"

\* ------------------------------------------------------------------------
\* Properties of the timestamps of a trade

\* The exit at position i of the log closes the entry before it, of the same
\* side, at a later timestamp.
ClosesEarlierEntry(log, i) ==
  /\ i > 1
  /\ log[i - 1].type = (IF log[i].type = "exit_long" THEN "entry_long" ELSE "entry_short")
  /\ log[i].timestamp > log[i - 1].timestamp

\* C35: a call never emits an exit after the entry it emits, nor an exit when
\* it starts flat, so with one bar of a later timestamp per call every exit
\* of the log has a timestamp strictly later than the entry it closes and no
\* two events of one trade share a timestamp.
C35_ExitLaterThanEntry ==
  /\ [][/\ \A i \in 1..Len(NewEvents) : IsEntry(NewEvents[i]) => i = Len(NewEvents)
        /\ current_position = NoPosition
             => \A i \in 1..Len(NewEvents) : ~IsExit(NewEvents[i])]_vars
  /\ [](\A i \in 1..Len(signals) : IsExit(signals[i]) => ClosesEarlierEntry(signals, i))

\* A trade opened by one call and closed by a later one.
C35_Witness ==
  \E i \in 2..Len(signals) :
    /\ IsExit(signals[i])
    /\ IsEntry(signals[i - 1])
    /\ signals[i].timestamp > signals[i - 1].timestamp

\* ------------------------------------------------------------------------
\* Properties of the exit price

\* C36: with ATR >= 0 and stopMultiple >= 0, a call that closes a long
\* position exits at a price that is at least the entry price minus the ATR
\* of the entry bar times stopMultiple and at least the low of the call's
\* bar; a call that closes a short position exits at a price that is at most
\* the entry price plus that ATR times stopMultiple and at most the bar's
\* high.
C36_BoundedLoss ==
  [][(SufficientCall /\ current_position # NoPosition /\ ExitEmitted) =>
       IF current_position = "long"
       THEN /\ NewEvents[1].price >= entry_price[1] - StopDistance(params, locals.atr_at_entry)
            /\ NewEvents[1].price >= Scaled(params, locals'.c.current_low)
       ELSE /\ NewEvents[1].price <= entry_price[1] + StopDistance(params, locals.atr_at_entry)
            /\ NewEvents[1].price <= Scaled(params, locals'.c.current_high)]_vars

\* A call that closed a long position at a loss: the exit is below the entry
\* price of the trade and not below the low of the call's bar.
C36_Witness ==
  /\ locals.sufficient
  /\ locals.position_before = "long"
  /\ \E i \in 2..Len(signals) :
       /\ signals[i].type = "exit_long"
       /\ signals[i].timestamp = locals.c.current_timestamp
       /\ signals[i - 1].type = "entry_long"
       /\ signals[i].price < signals[i - 1].price
       /\ signals[i].price >= Scaled(params, locals.c.current_low)

====
